---- MODULE Spec2Model ----
(***************************************************************************)
(* PDF_TO_TEXT: the extraction / OCR / cleaning / structuring pipelines of *)
(* src/2_OpenCV_OCR, as state machines.                                    *)
(*                                                                         *)
(*   - core_document_processing.py  (per-page pipeline)     SpecProcessing *)
(*   - the retry loops around the remote calls              SpecRetry      *)
(*   - core_document_generator.py + ui.py (the UI pipeline) SpecGenerator  *)
(*                                                                         *)
(* Text is a sequence of tokens.  A token is a record [k, p, n]: k its     *)
(* kind, p the page it comes from (0: none), n its length in characters.   *)
(* Python's None is the empty tuple <<>>, a present value x is <<x>>.      *)
(***************************************************************************)
EXTENDS Integers, Sequences, FiniteSets, TLC

VARIABLES
    \* ---- inputs
    pdf,            \* [ok: the PDF opens, pages: the pages' embedded text]
    api_key,        \* "" (missing) or "key"
    \* ---- core_document_processing.process_document_to_cleaned_text
    ppc,            \* where the pipeline is
    pidx,           \* loop index (extraction loop, then processing loop)
    results,        \* extract_text_from_pdf's list of (page_num, text, base64)
    renders,        \* pages rendered by get_pixmap, in order
    raw_text_pages, \* the page contents kept for the join
    classifyLog,    \* images passed to is_image_digital, in order
    is_digital,     \* the classifier's last answer
    ocrLog,         \* [page, engine] of every OCR engine invocation, in order
    cleanReqs,      \* raw texts handed to clean_with_gemini, in order
    pret,           \* the pipeline's return value (text, error)
    \* ---- one invocation of a function holding a retry loop
    rsite,          \* which function
    rpc,            \* "idle", "call", "try", "returned"
    rarg,           \* the payload (image or text) of the call
    attempt,        \* the loop variable
    delay,          \* clean_with_gemini's delay variable
    calls,          \* remote calls made by this invocation
    waits,          \* the time.sleep arguments of this invocation, in order
    hist,           \* the outcome of each remote call of this invocation
    rresult,        \* the value returned to the caller
    \* ---- core_document_generator's module state
    GENAI_CLIENT,   \* the module-level client: None until first built
    clients,        \* the genai.Client objects core_document_generator built
                    \* into a local variable client in the current run (the
                    \* others are GENAI_CLIENT), by the function that did
    \* ---- core_document_generator.process_document_to_cleaned_text
    libs,           \* which optional libraries were importable
    gpc,            \* where the UI run is
    gresult,        \* extract_text_from_pdf's result ...
    gstatus,        \* ... and status
    gidx,           \* the OCR loop's index i
    page_texts,     \* the OCR loop's page_texts
    graw_text,      \* raw_text, the text sent to cleaning
    grenders,       \* pages rendered by get_pixmap, in order
    gclassifyLog,   \* pages whose image was passed to is_image_digital
    gocrLog,        \* [page, engine] of every OCR engine invocation
    gcleanReqs,     \* raw texts sent to the cleaning model
    gret,           \* process_document_to_cleaned_text's (text, error)
    \* ---- ui.py: st.session_state and what the run displayed
    raw_text,       \* st.session_state.raw_text
    blueprint_json, \* st.session_state.blueprint_json
    messages,       \* st.error / st.success calls of the current run
    mutations,      \* clicks on "Apply AI Modification" since the last run
    updateReqs,     \* the requests update_structure passed to get_ai_response
    gis_digital,    \* core_document_generator: the classifier's last answer
    \* ---- one call of an implementation of is_image_digital
    cimpl,          \* the module whose is_image_digital is called
    cinput,         \* what the libraries do with the image
    cpc,            \* "idle", "call", "returned"
    cresult,        \* the value returned
    \* ---- main.process_folder
    folder,         \* [exists, files: what each file of the walk is]
    fpc,            \* where process_folder is
    fidx,           \* the file the walk is at
    fis_digital,    \* the classifier's last answer
    fclassifyLog,   \* files passed to is_image_digital, in order
    focrLog,        \* [page, engine] of every OCR engine invocation
    written,        \* the text files written, in order
    \* ---- ui.main: one script run over a stored blueprint
    output_type,    \* the radio button: "pptx", "doc" or "both"
    Document,       \* python-docx importable (TRUE) or Document is None
    epc,            \* where the script run is
    emitted,        \* what each consumer returned, in call order
    uncaught,       \* the exception that ended the script run, if any
    \* ---- main.py's script after process_folder, combine_texts_in_folder
    tree,           \* os.walk(base_folder): the directories and their files
    mpc,            \* where the script is
    widx,           \* the directory the walk is at
    combined_files, \* the combined files written: path and content, in order
    combined_text_path, \* the script's variable of that name
    \* ---- core_document_generator.extract_text_gemini, two invocations
    image_path_or_bytes, \* each invocation's argument
    xpc,            \* where each invocation is
    image_bytes,    \* each invocation's local image_bytes
    xattempt,       \* each invocation's loop variable
    sent,           \* the image bytes each invocation sent, per remote call
    temp_file,      \* the content of temp_ocr_image.png, None if absent
    \* ---- nlp.prepare.prepare_text
    text_in,        \* the argument raw_text
    npc,            \* where prepare_text is
    normalized,     \* the local of that name
    cleaned,        \* the local of that name
    sentences,      \* the local of that name
    prepared        \* the dictionary returned

procVars  == <<ppc, pidx, results, renders, raw_text_pages, classifyLog,
               is_digital, ocrLog, cleanReqs, pret>>
callVars   == <<rsite, rpc, rarg, attempt, delay, calls, waits, hist, rresult>>
clientVars == <<GENAI_CLIENT, clients>>
retryVars  == <<callVars, clientVars>>
genVars   == <<libs, gpc, gresult, gstatus, gidx, page_texts, graw_text,
               grenders, gclassifyLog, gocrLog, gcleanReqs, gret>>
uiVars    == <<raw_text, blueprint_json, messages>>
inVars    == <<pdf, api_key>>
updVars   == <<mutations, updateReqs>>
clsVars   == <<cimpl, cinput, cpc, cresult>>
folVars   == <<folder, fpc, fidx, fis_digital, fclassifyLog, focrLog, written>>
renVars   == <<output_type, Document, epc, emitted, uncaught>>
cmbVars   == <<tree, mpc, widx, combined_files, combined_text_path>>
ocrVars   == <<image_path_or_bytes, xpc, image_bytes, xattempt, sent, temp_file>>
nlpVars   == <<text_in, npc, normalized, cleaned, sentences, prepared>>
laterVars == <<cmbVars, ocrVars, nlpVars>>
moreVars  == <<renVars, laterVars>>
\* everything but laterVars
coreVars  == <<inVars, procVars, retryVars, genVars, uiVars, updVars, gis_digital,
               clsVars, folVars, renVars>>
extVars   == <<updVars, gis_digital, clsVars, folVars, moreVars>>
vars      == <<inVars, procVars, retryVars, genVars, uiVars, extVars>>


-----------------------------------------------------------------------------
(* Bounds of the model *)

MaxPages == 3
MaxLongPages == 6
MaxMutations == 2
MaxFiles == 2
MaxSlides == 2

-----------------------------------------------------------------------------
(* Optional values and text *)

None == <<>>
Some(x) == <<x>>
\* Python's truth value of an optional string
Truthy(opt) == opt # None /\ opt[1] # <<>>

Tok(k, p, n) == [k |-> k, p |-> p, n |-> n]
SP == Tok("sp", 0, 1)
NL == Tok("nl", 0, 1)
Word(p, n) == Tok("w", p, n)
IsSpace(t) == t.k \in {"sp", "nl"}

RECURSIVE CharLen(_)
CharLen(text) ==
    IF text = <<>> THEN 0 ELSE Head(text).n + CharLen(Tail(text))

\* re.sub(r'\s+', '', text)
RemoveWhitespace(text) == SelectSeq(text, LAMBDA t : ~IsSpace(t))

RECURSIVE LStrip(_)
LStrip(text) ==
    IF text # <<>> /\ IsSpace(Head(text)) THEN LStrip(Tail(text)) ELSE text

RECURSIVE RStrip(_)
RStrip(text) ==
    IF text # <<>> /\ IsSpace(text[Len(text)])
    THEN RStrip(SubSeq(text, 1, Len(text) - 1))
    ELSE text

\* str.strip()
Strip(text) == RStrip(LStrip(text))

RECURSIVE Join(_, _)
Join(sep, list) ==
    IF list = <<>> THEN <<>>
    ELSE IF Len(list) = 1 THEN list[1]
    ELSE list[1] \o sep \o Join(sep, Tail(list))

\* "".join(texts)
RECURSIVE Concat(_)
Concat(texts) == IF texts = <<>> THEN <<>> ELSE Head(texts) \o Concat(Tail(texts))

\* the number of consecutive newlines text starts with
RECURSIVE NewlineRun(_)
NewlineRun(text) ==
    IF text # <<>> /\ Head(text).k = "nl" THEN 1 + NewlineRun(Tail(text)) ELSE 0

\* re.sub(r'\n{3,}', '\n\n', text)
RECURSIVE CollapseNewlines(_)
CollapseNewlines(text) ==
    IF text = <<>> THEN <<>>
    ELSE LET r == NewlineRun(text) IN
         IF r >= 3 THEN <<NL, NL>> \o CollapseNewlines(SubSeq(text, r + 1, Len(text)))
         ELSE IF r >= 1 THEN SubSeq(text, 1, r) \o CollapseNewlines(SubSeq(text, r + 1, Len(text)))
         ELSE <<Head(text)>> \o CollapseNewlines(Tail(text))

\* core_document_processing._clean_raw_text
clean_raw_text(text) == Strip(CollapseNewlines(text))

-----------------------------------------------------------------------------
(* Images and base64 *)

PngBytes(p) == [png |-> p]        \* pix.tobytes(output="png") of page p
imdecode(bytes) == [img |-> bytes.png]   \* cv2.imdecode: the pixel array
b64encode(x) == [b64 |-> x]
b64decode(s) == s.b64

-----------------------------------------------------------------------------
(* The functions holding a retry loop.  One invocation: rpc = "call" on    *)
(* entry, "try" at the top of an iteration, "returned" when it returned.   *)

Sites == {"proc_ocr", "proc_clean", "gen_ocr", "ai", "tesseract", "engine_gemini"}

\* What a remote call can do: answer with text, raise a transient error
\* (quota, rate limit, 5xx), raise any other error, or answer with no text
\* (response.text is None, so .strip() raises inside the try block).
Outcomes == {"ok", "transient", "fatal", "notext"}

ErrorTag == Tok("[ERROR]", 0, 7)
ErrText(k) == <<Tok(k, 0, 9)>>
Returned(text) == [text |-> Some(text), error |-> None]
Failed(msg) == [text |-> None, error |-> Some(msg)]

\* what the vision model may answer for an image: text, or blank
OcrReplies(p) == { <<SP, Word(p, 7), NL>>, <<NL>> }
\* what the text model may answer to a cleaning prompt
CleanReplies == { <<NL, Tok("md", 0, 9), NL>>, <<SP>> }
\* what the text model may answer to a structuring prompt
FJ == Tok("fence_json", 0, 7)            \* three backquotes and json
F3 == Tok("fence", 0, 3)                 \* three backquotes
JsonSchema == Tok("json_schema", 0, 9)   \* [{"title": "..", "content": [".."]}]
JsonOther == Tok("json_other", 0, 9)     \* valid JSON of another shape
Prose == Tok("prose", 0, 9)              \* text that is no JSON
AiReplies ==
    { <<JsonSchema>>, <<FJ, NL, JsonSchema, NL, F3>>, <<F3, JsonSchema, F3, SP>>,
      <<JsonOther>>, <<Prose, NL, FJ, JsonSchema, F3>>, <<SP>> }
\* what Tesseract may read off an image
Sym(p) == Tok("sym", p, 1)               \* a character outside the kept set
TesseractReplies(p) == { <<Word(p, 5), Sym(p), NL>>, <<NL>> }

Replies(site, arg) ==
    CASE site = "proc_ocr" -> OcrReplies(b64decode(arg).png)
      [] site \in {"gen_ocr", "engine_gemini"} -> OcrReplies(arg.png)
      [] site = "proc_clean" -> CleanReplies
      [] site = "ai" -> AiReplies
      [] site = "tesseract" -> TesseractReplies(arg.img)

ProcOcrMaxRetries == 3
CleanMaxRetries == 3
GenOcrMaxRetries == 3
AiMaxRetries == 3
TesseractMaxRetries == 2
EngineGeminiMaxRetries == 3

\* the function returns without entering its loop
ReturnEarly(site, value) ==
    /\ rpc = "call" /\ rsite = site
    /\ rpc' = "returned"
    /\ rresult' = value
    /\ UNCHANGED <<rsite, rarg, attempt, delay, calls, waits, hist>>
    /\ UNCHANGED <<inVars, extVars, procVars, genVars, uiVars>>

\* the function reaches its for loop
EnterLoop(site, first) ==
    /\ rpc = "call" /\ rsite = site
    /\ rpc' = "try"
    /\ attempt' = first
    /\ UNCHANGED <<rsite, rarg, delay, calls, waits, hist, rresult>>
    /\ UNCHANGED <<inVars, extVars, procVars, genVars, uiVars>>

\* a faulty variant: the result is stored but the loop goes on
SuccessNoReturn(value) ==
    /\ rresult' = value
    /\ rpc' = "try"
    /\ attempt' = attempt + 1
    /\ UNCHANGED <<delay, waits>>

\* the try block returned
Success(value) ==
    /\ rresult' = value
    /\ rpc' = "returned"
    /\ UNCHANGED <<attempt, delay, waits>>

\* a faulty variant: the last attempt is compared with a bound one too large
FailureOneMore(canRetry, sleepFor, newDelay, errValue) ==
    IF canRetry \/ attempt <= 3
    THEN /\ waits' = Append(waits, sleepFor)
         /\ delay' = newDelay
         /\ attempt' = attempt + 1
         /\ rpc' = "try"
         /\ UNCHANGED rresult
    ELSE /\ rresult' = errValue
         /\ rpc' = "returned"
         /\ UNCHANGED <<attempt, delay, waits>>

\* the except block: sleep and go round again, or give up
Failure(canRetry, sleepFor, newDelay, errValue) ==
    IF canRetry
    THEN /\ waits' = Append(waits, sleepFor)
         /\ delay' = newDelay
         /\ attempt' = attempt + 1
         /\ rpc' = "try"
         /\ UNCHANGED rresult
    ELSE /\ rresult' = errValue
         /\ rpc' = "returned"
         /\ UNCHANGED <<attempt, delay, waits>>

\* one iteration: the remote call and what follows it
Iteration(site, out, reply, okValue, canRetry, sleepFor, newDelay, errValue) ==
    /\ rpc = "try" /\ rsite = site
    /\ calls' = calls + 1
    /\ hist' = Append(hist, [out |-> out, reply |-> reply])
    /\ IF out = "ok" THEN Success(okValue)
       ELSE Failure(canRetry, sleepFor, newDelay, errValue)
    /\ UNCHANGED <<rsite, rarg, clientVars>>
    /\ UNCHANGED <<inVars, extVars, procVars, genVars, uiVars>>

\* the outcomes and replies an iteration draws from
Drawn(site) ==
    { [out |-> o, reply |-> r] : o \in Outcomes, r \in Replies(site, rarg) \cup {<<>>} }
Draws(site) ==
    { d \in Drawn(site) : (d.out = "ok") = (d.reply # <<>>) }

(* core_document_processing.extract_text_gemini *)
ProcOcrEnter ==
    /\ IF api_key = "" THEN ReturnEarly("proc_ocr", Returned(<<>>))
       ELSE EnterLoop("proc_ocr", 1)
    /\ UNCHANGED clientVars

ProcOcrAttempt ==
    /\ rpc = "try" /\ rsite = "proc_ocr"
    /\ \E d \in Draws("proc_ocr") :
        Iteration("proc_ocr", d.out, d.reply, Returned(Strip(d.reply)),
                  attempt < ProcOcrMaxRetries, 2, delay, Returned(<<>>))

(* core_document_processing.clean_with_gemini *)
\* a faulty variant: the API key is not tested
CleanEnterNoKeyCheck ==
    /\ EnterLoop("proc_clean", 1)
    /\ UNCHANGED clientVars

CleanEnter ==
    /\ IF api_key = ""
       THEN ReturnEarly("proc_clean", Returned(<<ErrorTag, Tok("key_missing", 0, 9)>>))
       ELSE EnterLoop("proc_clean", 1)
    /\ UNCHANGED clientVars

CleanAttempt ==
    /\ rpc = "try" /\ rsite = "proc_clean"
    /\ \E d \in Draws("proc_clean") :
        Iteration("proc_clean", d.out, d.reply, Returned(Strip(d.reply)),
                  attempt < CleanMaxRetries, delay, delay * 2,
                  Returned(<<ErrorTag, Tok("cleaning_failed", 0, 9)>>))

(* core_document_generator.extract_text_gemini *)
GenOcrEnter ==
    \E built \in BOOLEAN :
        IF GENAI_CLIENT = None /\ ~built
        THEN /\ ReturnEarly("gen_ocr", Returned(ErrText("[GEMINI CLIENT ERROR]")))
             /\ UNCHANGED clientVars
        ELSE /\ EnterLoop("gen_ocr", 1)
             /\ GENAI_CLIENT' = IF GENAI_CLIENT = None THEN Some(api_key)
                                ELSE GENAI_CLIENT
             /\ UNCHANGED clients

GenOcrAttempt ==
    /\ rpc = "try" /\ rsite = "gen_ocr"
    /\ \E d \in Draws("gen_ocr") :
        Iteration("gen_ocr", d.out, d.reply, Returned(Strip(d.reply)),
                  attempt < GenOcrMaxRetries, 2, delay,
                  Returned(ErrText("[GEMINI OCR ERROR]")))

(* core_document_generator.get_ai_response *)
\* str.replace(fence, "") for both fences, or for the bare fence alone
\* (which leaves the word json of a json fence behind)
RemoveFences(text, both) ==
    LET kept == SelectSeq(text, LAMBDA t : t.k # "fence" /\ (both => t.k # "fence_json"))
    IN  [i \in 1..Len(kept) |-> IF kept[i].k = "fence_json" THEN Tok("prose", 0, 4)
                                ELSE kept[i]]

CleanWrapping(text) ==
    IF text # <<>> /\ Head(text).k = "fence_json" THEN Strip(RemoveFences(text, TRUE))
    ELSE IF text # <<>> /\ Head(text).k = "fence" THEN Strip(RemoveFences(text, FALSE))
    ELSE text

AiEnter ==
    /\ IF api_key = ""
       THEN /\ ReturnEarly("ai", Failed(ErrText("API Key is missing.")))
            /\ UNCHANGED clients
       ELSE /\ EnterLoop("ai", 0)
            /\ clients' = Append(clients, "get_ai_response")
    /\ UNCHANGED GENAI_CLIENT

AiAttempt ==
    /\ rpc = "try" /\ rsite = "ai"
    /\ \E d \in Draws("ai") :
        Iteration("ai", d.out, d.reply,
                  [text |-> Some(CleanWrapping(Strip(d.reply))), error |-> None],
                  attempt < AiMaxRetries - 1, 2 ^ attempt, delay,
                  Failed(ErrText("Error connecting to AI after multiple retries")))

(* ocr_engine.extract_text_tesseract: a call that takes longer than the    *)
(* timeout raises TimeoutError inside the try block                        *)
\* re.sub(r'[^A-Za-z0-9.,!?;:\'\"\\-\s]', '', text)
KeepAllowed(text) == SelectSeq(text, LAMBDA t : t.k # "sym")

TesseractEnter ==
    /\ EnterLoop("tesseract", 1)
    /\ UNCHANGED clientVars

TesseractAttempt ==
    /\ rpc = "try" /\ rsite = "tesseract"
    /\ \E d \in Draws("tesseract") :
        Iteration("tesseract", d.out, d.reply, Returned(Strip(KeepAllowed(d.reply))),
                  attempt < TesseractMaxRetries, 1, delay, Returned(<<>>))

(* ocr_engine.extract_text_gemini *)
EngineGeminiEnter ==
    /\ \E loaded \in BOOLEAN :
          IF ~loaded THEN ReturnEarly("engine_gemini", Returned(<<>>))
          ELSE EnterLoop("engine_gemini", 1)
    /\ UNCHANGED clientVars

EngineGeminiAttempt ==
    /\ rpc = "try" /\ rsite = "engine_gemini"
    /\ \E d \in Draws("engine_gemini") :
        Iteration("engine_gemini", d.out, d.reply, Returned(Strip(d.reply)),
                  attempt < EngineGeminiMaxRetries, 2, delay, Returned(<<>>))

\* the caller invokes the function at site with payload arg
Invoke(site, arg) ==
    /\ rsite' = site
    /\ rarg' = arg
    /\ rpc' = "call"
    /\ attempt' = 0
    /\ delay' = 1
    /\ calls' = 0
    /\ waits' = <<>>
    /\ hist' = <<>>
    /\ rresult' = Returned(<<>>)

\* the caller took the returned value: the callee's frame is gone
PopFrame ==
    /\ rsite' = "none"
    /\ rpc' = "idle"
    /\ rarg' = <<>>
    /\ attempt' = 0
    /\ delay' = 1
    /\ calls' = 0
    /\ waits' = <<>>
    /\ hist' = <<>>
    /\ rresult' = Returned(<<>>)
    /\ UNCHANGED clientVars

-----------------------------------------------------------------------------
(* Documents *)

\* the embedded text layer of page p, by the kind of page
PageText(kind, p) ==
    CASE kind = "digital" -> <<SP, Word(p, 246), NL, NL, NL, Word(p, 5), NL>>
      [] kind = "sparse"  -> <<Word(p, 250)>>
      [] kind = "short"   -> <<Word(p, 50)>>
      [] kind = "blank"   -> <<>>

PageKinds == {"digital", "sparse", "blank"}

DocsOf(kinds, maxlen) ==
    UNION { { [p \in 1..n |-> PageText(f[p], p)] : f \in [1..n -> kinds] } : n \in 0..maxlen }

Pdfs == { [ok |-> TRUE, pages |-> d] : d \in DocsOf(PageKinds, MaxPages) }
        \cup { [ok |-> FALSE, pages |-> <<>>] }

ApiKeys == {"", "key"}

-----------------------------------------------------------------------------
(* core_document_processing.py *)

DigitalThreshold == 250

page_separator == <<NL, NL, Tok("---", 0, 3), NL, NL>>

\* a faulty variant: the rendered image is kept for a digital page
ExtractPageResultKeepsImage(page_num, raw_pdf_text, base64_img) ==
    LET meaningful_text_length == CharLen(RemoveWhitespace(raw_pdf_text))
    IN  IF meaningful_text_length > DigitalThreshold
        THEN <<page_num, Some(Strip(raw_pdf_text)), Some(base64_img)>>
        ELSE <<page_num, None, Some(base64_img)>>

\* a faulty variant: the comparison is >= instead of >
ExtractPageResultAtLeast(page_num, raw_pdf_text, base64_img) ==
    LET meaningful_text_length == CharLen(RemoveWhitespace(raw_pdf_text))
    IN  IF meaningful_text_length >= DigitalThreshold
        THEN <<page_num, Some(Strip(raw_pdf_text)), None>>
        ELSE <<page_num, None, Some(base64_img)>>

\* extract_text_from_pdf, step 3: the tuple saved for one page
ExtractPageResult(page_num, raw_pdf_text, base64_img) ==
    LET meaningful_text_length == CharLen(RemoveWhitespace(raw_pdf_text))
    IN  IF meaningful_text_length > DigitalThreshold
        THEN <<page_num, Some(Strip(raw_pdf_text)), None>>
        ELSE <<page_num, None, Some(base64_img)>>

\* fitz.open: a PDF that does not open raises out of the pipeline
ProcOpen ==
    /\ ppc = "start"
    /\ IF pdf.ok THEN ppc' = "extract" /\ pidx' = 1
       ELSE ppc' = "raised" /\ UNCHANGED pidx
    /\ UNCHANGED <<genVars, uiVars, inVars, extVars, results, renders, raw_text_pages, classifyLog,
                   is_digital, ocrLog, cleanReqs, pret, retryVars>>

\* extract_text_from_pdf: one iteration of the page loop
ExtractPage ==
    /\ ppc = "extract"
    /\ pidx <= Len(pdf.pages)
    /\ LET page_num == pidx
           raw_pdf_text == pdf.pages[pidx]
           img_data == PngBytes(page_num)
           base64_img == b64encode(img_data)
       IN  /\ renders' = Append(renders, page_num)
           /\ results' = Append(results,
                                ExtractPageResult(page_num, raw_pdf_text, base64_img))
    /\ pidx' = pidx + 1
    /\ UNCHANGED <<genVars, uiVars, inVars, extVars, ppc, raw_text_pages, classifyLog, is_digital, ocrLog,
                   cleanReqs, pret, retryVars>>

\* extract_text_from_pdf returns; the processing loop starts
ExtractReturn ==
    /\ ppc = "extract"
    /\ pidx > Len(pdf.pages)
    /\ ppc' = "process"
    /\ pidx' = 1
    /\ UNCHANGED <<genVars, uiVars, inVars, extVars, results, renders, raw_text_pages, classifyLog,
                   is_digital, ocrLog, cleanReqs, pret, retryVars>>

\* a faulty variant: insert(0, page_content) instead of append
KeepPageFirst(pages, page_content) ==
    IF page_content # <<>> THEN <<page_content>> \o pages ELSE pages

\* if page_content: raw_text_pages.append(page_content)
KeepPage(pages, page_content) ==
    IF page_content # <<>> THEN Append(pages, page_content) ELSE pages

\* is_image_digital: False without OpenCV, for bytes that do not decode and
\* on any exception; else edge density (in thousandths) > 0.01
ProcIsImageDigital(cv) ==
    IF cv.state # "ok" THEN FALSE ELSE cv.density > 10

CvOutcomes ==
    { [state |-> s, density |-> 0] : s \in {"no_cv", "undecodable", "exception"} }
    \cup { [state |-> "ok", density |-> d] : d \in {10, 11} }

\* process_document_to_cleaned_text, a page with digital text (with neither
\* text nor image the page content stays empty)
ProcessPageText ==
    /\ ppc = "process"
    /\ pidx <= Len(results)
    /\ LET page_raw_text == results[pidx][2]
           base64_img == results[pidx][3]
       IN  /\ Truthy(page_raw_text) \/ base64_img = None
           /\ raw_text_pages' =
                KeepPage(raw_text_pages,
                         IF Truthy(page_raw_text) THEN Strip(page_raw_text[1]) ELSE <<>>)
    /\ pidx' = pidx + 1
    /\ UNCHANGED <<genVars, uiVars, inVars, extVars, ppc, results, renders, classifyLog, is_digital, ocrLog,
                   cleanReqs, pret, retryVars>>

\* ... a page with an image and no API key: continue
ProcessPageNoKey ==
    /\ ppc = "process"
    /\ pidx <= Len(results)
    /\ ~Truthy(results[pidx][2])
    /\ results[pidx][3] # None
    /\ api_key = ""
    /\ pidx' = pidx + 1
    /\ UNCHANGED <<genVars, uiVars, inVars, extVars, ppc, results, renders, raw_text_pages, classifyLog,
                   is_digital, ocrLog, cleanReqs, pret, retryVars>>

\* a faulty variant: a page the classifier calls digital goes to Tesseract
ProcEngineByClassifier(digital) == IF digital THEN "tesseract" ELSE "gemini"

\* if is_image_digital(img_bytes): extract_text_gemini(...)
\* else: extract_text_gemini(...)
ProcEngine(digital) == IF digital THEN "gemini" ELSE "gemini"

\* ... a page with an image: classify it, then call extract_text_gemini
\* (on either answer of the classifier)
ProcessPageOcr ==
    /\ ppc = "process"
    /\ pidx <= Len(results)
    /\ ~Truthy(results[pidx][2])
    /\ results[pidx][3] # None
    /\ api_key # ""
    /\ LET page_num == results[pidx][1]
           base64_img == results[pidx][3][1]
           img_bytes == b64decode(base64_img)
       IN  /\ classifyLog' = Append(classifyLog, img_bytes)
           /\ \E cv \in CvOutcomes : is_digital' = ProcIsImageDigital(cv)
           /\ ocrLog' = Append(ocrLog, [page |-> page_num, engine |-> ProcEngine(is_digital')])
           /\ Invoke("proc_ocr", base64_img)
    /\ ppc' = "ocr"
    /\ UNCHANGED <<genVars, uiVars, inVars, extVars, pidx, results, renders, raw_text_pages, cleanReqs, pret,
                   clientVars>>

\* ... extract_text_gemini returned: page_content = ocr_text.strip()
ProcessPageOcrReturn ==
    /\ ppc = "ocr"
    /\ rpc = "returned"
    /\ raw_text_pages' = KeepPage(raw_text_pages, Strip(rresult.text[1]))
    /\ pidx' = pidx + 1
    /\ ppc' = "process"
    /\ PopFrame
    /\ UNCHANGED <<genVars, uiVars, inVars, extVars, results, renders, classifyLog, is_digital, ocrLog,
                   cleanReqs, pret>>

\* a faulty variant: only the first five page texts are joined
CombineFirstPages(pages) ==
    clean_raw_text(Join(page_separator,
                        SubSeq(pages, 1, IF Len(pages) < 5 THEN Len(pages) ELSE 5)))

\* the raw text the pipeline sends to cleaning
CombineRawText(pages) == clean_raw_text(Join(page_separator, pages))

\* after the loop: join, clean up, and call clean_with_gemini unless empty
ProcCombine ==
    /\ ppc = "process"
    /\ pidx > Len(results)
    /\ LET raw_combined_text == CombineRawText(raw_text_pages)
       IN  IF Strip(raw_combined_text) = <<>>
           THEN /\ pret' = Failed(<<ErrorTag, Tok("no_text", 0, 9)>>)
                /\ ppc' = "done"
                /\ UNCHANGED <<cleanReqs, retryVars>>
           ELSE /\ cleanReqs' = Append(cleanReqs, raw_combined_text)
                /\ Invoke("proc_clean", raw_combined_text)
                /\ ppc' = "clean"
                /\ UNCHANGED <<pret, clientVars>>
    /\ UNCHANGED <<genVars, uiVars, inVars, extVars, pidx, results, renders, raw_text_pages, classifyLog,
                   is_digital, ocrLog>>

\* a faulty variant: the prefix is tested without its brackets
StartsWithErrorBare(text) == text # <<>> /\ Head(text) = Tok("ERROR", 0, 5)

\* str.startswith("[ERROR]")
StartsWithError(text) == text # <<>> /\ Head(text) = ErrorTag

\* clean_with_gemini returned: (None, message) or (text, None)
ProcCleanReturn ==
    /\ ppc = "clean"
    /\ rpc = "returned"
    /\ LET cleaned_structured_text == rresult.text[1]
       IN  pret' = IF StartsWithError(cleaned_structured_text)
                   THEN Failed(cleaned_structured_text)
                   ELSE Returned(cleaned_structured_text)
    /\ ppc' = "done"
    /\ PopFrame
    /\ UNCHANGED <<genVars, uiVars, inVars, extVars, pidx, results, renders, raw_text_pages, classifyLog,
                   is_digital, ocrLog, cleanReqs>>

-----------------------------------------------------------------------------
(* core_document_generator.py *)

MaxGenPages == 2

GenPageKinds == {"digital", "short", "blank"}
GenPdfs == { [ok |-> TRUE, pages |-> d] : d \in DocsOf(GenPageKinds, MaxGenPages) }
           \cup { [ok |-> FALSE, pages |-> <<>>] }

\* fitz importable or not; cv2, pytesseract and google.genai importable or not
LibStates == {"all", "no_fitz", "no_ocr"}

EmbeddedTextMin == 100

OCR_REQUIRED == <<Tok("OCR_REQUIRED", 0, 12)>>

\* a faulty variant: a PDF that does not open gives empty text and no error
GenExtractTextOpenEmpty(pdfv, libsv) ==
    IF libsv = "no_fitz"
    THEN [result |-> None, status |-> Some(ErrText("PyMuPDF library is not installed.")),
          renders |-> <<>>]
    ELSE IF ~pdfv.ok
    THEN [result |-> Some(<<>>), status |-> None, renders |-> <<>>]
    ELSE LET embedded_text == Concat(pdfv.pages)
             n == Len(pdfv.pages)
             image_arrays == [i \in 1..n |-> <<imdecode(PngBytes(i)), PngBytes(i)>>]
         IN  IF CharLen(Strip(embedded_text)) > EmbeddedTextMin
             THEN [result |-> Some(embedded_text), status |-> None, renders |-> <<>>]
             ELSE IF libsv = "no_ocr"
             THEN [result |-> None, status |-> Some(ErrText("OCR libraries are not installed")),
                   renders |-> <<>>]
             ELSE IF image_arrays = <<>>
             THEN [result |-> None, status |-> Some(ErrText("no pages could be rendered")),
                   renders |-> <<>>]
             ELSE [result |-> Some(image_arrays), status |-> Some(OCR_REQUIRED),
                   renders |-> [i \in 1..n |-> i]]

\* extract_text_from_pdf: (result, status), and the pages it rendered
GenExtractText(pdfv, libsv) ==
    IF libsv = "no_fitz"
    THEN [result |-> None, status |-> Some(ErrText("PyMuPDF library is not installed.")),
          renders |-> <<>>]
    ELSE IF ~pdfv.ok
    THEN [result |-> None, status |-> Some(ErrText("Error during PDF processing")),
          renders |-> <<>>]
    ELSE LET embedded_text == Concat(pdfv.pages)
             n == Len(pdfv.pages)
             image_arrays == [i \in 1..n |-> <<imdecode(PngBytes(i)), PngBytes(i)>>]
         IN  IF CharLen(Strip(embedded_text)) > EmbeddedTextMin
             THEN [result |-> Some(embedded_text), status |-> None, renders |-> <<>>]
             ELSE IF libsv = "no_ocr"
             THEN [result |-> None, status |-> Some(ErrText("OCR libraries are not installed")),
                   renders |-> <<>>]
             ELSE IF image_arrays = <<>>
             THEN [result |-> None, status |-> Some(ErrText("no pages could be rendered")),
                   renders |-> <<>>]
             ELSE [result |-> Some(image_arrays), status |-> Some(OCR_REQUIRED),
                   renders |-> [i \in 1..n |-> i]]

\* is_image_digital: True without cv2 or pytesseract and on any exception;
\* False for fewer than 20 characters read or no confidence value; else
\* avg_conf > 80.0 or edge density (in thousandths) > 0.005
GenIsImageDigital(cv) ==
    IF cv.state = "no_lib" THEN TRUE
    ELSE IF cv.state = "exception" THEN TRUE
    ELSE IF cv.textlen < 20 THEN FALSE
    ELSE IF cv.nconf = 0 THEN FALSE
    ELSE (cv.avg_conf > 80) \/ (cv.density > 5)

GenCvOutcomes ==
    { [state |-> "exception", textlen |-> 0, nconf |-> 0, avg_conf |-> 0, density |-> 0],
      [state |-> "ok", textlen |-> 19, nconf |-> 3, avg_conf |-> 90, density |-> 9],
      [state |-> "ok", textlen |-> 20, nconf |-> 0, avg_conf |-> 0, density |-> 9],
      [state |-> "ok", textlen |-> 20, nconf |-> 3, avg_conf |-> 80, density |-> 5],
      [state |-> "ok", textlen |-> 20, nconf |-> 3, avg_conf |-> 81, density |-> 5],
      [state |-> "ok", textlen |-> 20, nconf |-> 3, avg_conf |-> 80, density |-> 6] }

\* extract_text_tesseract(img_array): the text read, stripped, or an error string
GenTesseract(out, reply) ==
    IF out = "ok" THEN Strip(reply) ELSE ErrText("[TESSERACT ERROR]")

\* f"\n\n--- Page {i+1} ---\n\n{page_text}"
PageEntry(i, page_text) == <<NL, NL, Tok("--- Page", i, 12), NL, NL>> \o page_text

\* the pipeline's locals, gone when it returns
GenLocalsCleared ==
    /\ gresult' = None
    /\ gstatus' = None
    /\ gidx' = 0
    /\ page_texts' = <<>>
    /\ graw_text' = <<>>

\* main(): the Process button, with an API key and an uploaded file
UiClickProcess ==
    /\ gpc = "ready"
    /\ api_key # ""
    /\ gpc' = "extract"
    /\ messages' = {}
    /\ grenders' = <<>>
    /\ gclassifyLog' = <<>>
    /\ gocrLog' = <<>>
    /\ gcleanReqs' = <<>>
    /\ UNCHANGED <<libs, gresult, gstatus, gidx, page_texts, graw_text, gret,
                   raw_text, blueprint_json>>
    /\ mutations' = 0
    /\ updateReqs' = <<>>
    /\ clients' = <<>>
    /\ UNCHANGED <<inVars, moreVars, procVars, callVars, GENAI_CLIENT, gis_digital, clsVars,
                   folVars>>

\* main() without an API key: an error, and the workflow is not shown
UiNoKey ==
    /\ gpc = "ready"
    /\ api_key = ""
    /\ messages' = {"error: provide an API key"}
    /\ UNCHANGED <<genVars, raw_text, blueprint_json>>
    /\ UNCHANGED <<inVars, extVars, procVars, retryVars>>

\* process_document_to_cleaned_text, step 1: extract_text_from_pdf and the
\* branch on its status
GenExtract ==
    /\ gpc = "extract"
    /\ LET r == GenExtractText(pdf, libs)
       IN  /\ grenders' = r.renders
           /\ IF r.status = None
              THEN /\ graw_text' = r.result[1]
                   /\ gpc' = "clean"
                   /\ UNCHANGED <<gresult, gstatus, gidx, page_texts, gret>>
              ELSE IF r.status = Some(OCR_REQUIRED)
              THEN /\ gresult' = r.result
                   /\ gstatus' = r.status
                   /\ gidx' = 1
                   /\ page_texts' = <<>>
                   /\ gpc' = "ocr_loop"
                   /\ UNCHANGED <<graw_text, gret>>
              ELSE /\ gret' = [text |-> None, error |-> r.status]
                   /\ gpc' = "returned"
                   /\ UNCHANGED <<gresult, gstatus, gidx, page_texts, graw_text>>
    /\ UNCHANGED <<libs, gclassifyLog, gocrLog, gcleanReqs>>
    /\ UNCHANGED <<inVars, extVars, procVars, retryVars, uiVars>>

\* the OCR loop, a page the classifier calls digital: Tesseract
GenPageTesseract ==
    /\ gpc = "ocr_loop"
    /\ gidx <= Len(gresult[1])
    /\ \E cv \in GenCvOutcomes :
          /\ gis_digital' = GenIsImageDigital(cv)
          /\ gis_digital'
          /\ \E out \in {"ok", "exception"}, reply \in TesseractReplies(gidx) :
                page_texts' = Append(page_texts,
                                     PageEntry(gidx, GenTesseract(out, reply)))
    /\ gclassifyLog' = Append(gclassifyLog, gidx)
    /\ gocrLog' = Append(gocrLog, [page |-> gidx, engine |-> "tesseract"])
    /\ gidx' = gidx + 1
    /\ UNCHANGED <<libs, gpc, gresult, gstatus, graw_text, grenders, gcleanReqs, gret>>
    /\ UNCHANGED <<inVars, moreVars, updVars, clsVars, folVars, procVars, retryVars, uiVars>>

\* ... a page the classifier calls handwritten: extract_text_gemini
GenPageGemini ==
    /\ gpc = "ocr_loop"
    /\ gidx <= Len(gresult[1])
    /\ \E cv \in GenCvOutcomes :
          /\ gis_digital' = GenIsImageDigital(cv)
          /\ ~gis_digital'
    /\ gclassifyLog' = Append(gclassifyLog, gidx)
    /\ gocrLog' = Append(gocrLog, [page |-> gidx, engine |-> "gemini"])
    /\ Invoke("gen_ocr", gresult[1][gidx][2])
    /\ gpc' = "ocr_wait"
    /\ UNCHANGED <<libs, gresult, gstatus, gidx, page_texts, graw_text, grenders,
                   gcleanReqs, gret, clientVars>>
    /\ UNCHANGED <<inVars, moreVars, updVars, clsVars, folVars, procVars, uiVars>>

\* ... extract_text_gemini returned
GenPageGeminiReturn ==
    /\ gpc = "ocr_wait"
    /\ rpc = "returned"
    /\ page_texts' = Append(page_texts, PageEntry(gidx, rresult.text[1]))
    /\ gidx' = gidx + 1
    /\ gpc' = "ocr_loop"
    /\ PopFrame
    /\ UNCHANGED <<libs, gresult, gstatus, graw_text, grenders, gclassifyLog,
                   gocrLog, gcleanReqs, gret>>
    /\ UNCHANGED <<inVars, extVars, procVars, uiVars>>

\* raw_text = "\n".join(page_texts)
GenJoin ==
    /\ gpc = "ocr_loop"
    /\ gidx > Len(gresult[1])
    /\ graw_text' = Join(<<NL>>, page_texts)
    /\ gpc' = "clean"
    /\ UNCHANGED <<libs, gresult, gstatus, gidx, page_texts, grenders, gclassifyLog,
                   gocrLog, gcleanReqs, gret>>
    /\ UNCHANGED <<inVars, extVars, procVars, retryVars, uiVars>>

\* the cleaning block: one remote call, no loop
GenCleanResult(out, reply) ==
    IF out = "ok" THEN Returned(Strip(reply))
    ELSE IF out = "notext" THEN Failed(ErrText("Gemini Cleaning Error (parsing)"))
    ELSE Failed(ErrText("Gemini Cleaning Error"))

GenClean ==
    /\ gpc = "clean"
    /\ gcleanReqs' = Append(gcleanReqs, graw_text)
    /\ \E out \in Outcomes, reply \in CleanReplies :
          gret' = GenCleanResult(out, reply)
    /\ gpc' = "returned"
    /\ GenLocalsCleared
    /\ clients' = Append(clients, "process_document_to_cleaned_text")
    /\ UNCHANGED <<libs, grenders, gclassifyLog, gocrLog>>
    /\ UNCHANGED <<inVars, extVars, procVars, callVars, GENAI_CLIENT, uiVars>>

(* ui.py *)

\* a faulty variant: the error branch leaves the stored blueprint alone
UiExtractionErrorKeepsBlueprint ==
    /\ gpc = "returned"
    /\ Truthy(gret.error)
    /\ messages' = messages \cup {"error: extraction/cleaning"}
    /\ raw_text' = None
    /\ UNCHANGED blueprint_json
    /\ gpc' = "ready"
    /\ GenLocalsCleared
    /\ gret' = Returned(<<>>)
    /\ UNCHANGED <<libs, grenders, gclassifyLog, gocrLog, gcleanReqs>>
    /\ UNCHANGED <<inVars, extVars, procVars, retryVars>>

\* run_extraction_and_cleaning after the pipeline returned, an error
UiExtractionError ==
    /\ gpc = "returned"
    /\ Truthy(gret.error)
    /\ messages' = messages \cup {"error: extraction/cleaning"}
    /\ raw_text' = None
    /\ blueprint_json' = None
    /\ gpc' = "ready"
    /\ GenLocalsCleared
    /\ gret' = Returned(<<>>)
    /\ UNCHANGED <<libs, grenders, gclassifyLog, gocrLog, gcleanReqs>>
    /\ UNCHANGED <<inVars, extVars, procVars, retryVars>>

\* ... no error, and run_blueprint_generation with no cleaned text
UiCleanedEmpty ==
    /\ gpc = "returned"
    /\ ~Truthy(gret.error)
    /\ ~Truthy(gret.text)
    /\ raw_text' = gret.text
    /\ messages' = messages \cup {"success: cleaned", "error: cleaned text is missing"}
    /\ gpc' = "ready"
    /\ GenLocalsCleared
    /\ gret' = Returned(<<>>)
    /\ UNCHANGED <<libs, grenders, gclassifyLog, gocrLog, gcleanReqs, blueprint_json>>
    /\ UNCHANGED <<inVars, extVars, procVars, retryVars>>

\* ... no error, and run_blueprint_generation calls generate_initial_structure
UiGenerate ==
    /\ gpc = "returned"
    /\ ~Truthy(gret.error)
    /\ Truthy(gret.text)
    /\ raw_text' = gret.text
    /\ messages' = messages \cup {"success: cleaned"}
    /\ Invoke("ai", <<Tok("generate", 0, 9)>> \o gret.text[1])
    /\ gpc' = "blueprint"
    /\ GenLocalsCleared
    /\ gret' = Returned(<<>>)
    /\ UNCHANGED <<libs, grenders, gclassifyLog, gocrLog, gcleanReqs, blueprint_json,
                   clientVars>>
    /\ UNCHANGED <<inVars, extVars, procVars>>

\* a faulty variant: a failed generation also drops the cleaned text
UiBlueprintReturnDropsText ==
    /\ gpc = "blueprint"
    /\ rpc = "returned"
    /\ IF Truthy(rresult.error)
       THEN /\ messages' = messages \cup {"error: blueprint generation"}
            /\ blueprint_json' = None
            /\ raw_text' = None
       ELSE /\ blueprint_json' = rresult.text
            /\ messages' = messages \cup {"success: blueprint generated"}
            /\ UNCHANGED raw_text
    /\ gpc' = "ready"
    /\ PopFrame
    /\ UNCHANGED <<libs, gresult, gstatus, gidx, page_texts, graw_text, grenders,
                   gclassifyLog, gocrLog, gcleanReqs, gret>>
    /\ UNCHANGED <<inVars, extVars, procVars>>

\* run_blueprint_generation after generate_initial_structure returned
UiBlueprintReturn ==
    /\ gpc = "blueprint"
    /\ rpc = "returned"
    /\ IF Truthy(rresult.error)
       THEN /\ messages' = messages \cup {"error: blueprint generation"}
            /\ blueprint_json' = None
       ELSE /\ blueprint_json' = rresult.text
            /\ messages' = messages \cup {"success: blueprint generated"}
    /\ gpc' = "ready"
    /\ PopFrame
    /\ UNCHANGED <<libs, gresult, gstatus, gidx, page_texts, graw_text, grenders,
                   gclassifyLog, gocrLog, gcleanReqs, gret, raw_text>>
    /\ UNCHANGED <<inVars, extVars, procVars>>

\* the text the user types as a modification
Instructions == { <<Tok("instruction", 0, 9)>> }

\* update_structure(current_json, user_instruction, system_instruction,
\* api_key) called with positional arguments args: Python binds them in
\* order and raises TypeError when one of the four is missing
update_structure(args) ==
    IF Len(args) # 4
    THEN [raised |-> TRUE]
    ELSE [raised |-> FALSE,
          request |-> [CURRENT_JSON |-> args[1], USER_INSTRUCTION |-> args[2],
                       api_key |-> args[4]],
          prompt |-> <<Tok("update", 0, 9)>> \o args[1] \o args[2]]

\* main(): "Apply AI Modification" with an instruction, shown only while a
\* blueprint is stored; run_blueprint_update up to its call of
\* update_structure(api_key, blueprint_json, user_instruction)
UiUpdate ==
    /\ gpc = "ready"
    /\ api_key # ""
    /\ Truthy(blueprint_json)
    /\ mutations < MaxMutations
    /\ mutations' = mutations + 1
    /\ \E user_instruction \in Instructions :
          LET call == update_structure(<<api_key, blueprint_json[1], user_instruction>>)
          IN  IF call.raised
              THEN /\ messages' = messages \cup {"exception: TypeError"}
                   /\ UNCHANGED <<updateReqs, retryVars, gpc>>
              ELSE /\ updateReqs' = Append(updateReqs, call.request)
                   /\ Invoke("ai", call.prompt)
                   /\ gpc' = "update"
                   /\ UNCHANGED <<messages, clientVars>>
    /\ UNCHANGED <<libs, gresult, gstatus, gidx, page_texts, graw_text, grenders,
                   gclassifyLog, gocrLog, gcleanReqs, gret, raw_text, blueprint_json>>
    /\ UNCHANGED <<inVars, moreVars, procVars, gis_digital, clsVars, folVars>>

\* JSON texts: JsonSchema is a list of one full entry, JsonOther an object
\* with members; LB entry .. entry RB is a list whose members are written
\* one token each: a full entry {"title": t, "content": [..]}, an entry
\* without the title key, an entry whose title is null, or a string
LB == Tok("[", 0, 1)
RB == Tok("]", 0, 1)
EntryKinds == {"entry", "entry_no_title", "entry_null_title", "string"}

\* json.loads: the value parsed, or "invalid" where it raises
json_loads(text) ==
    LET t == Strip(text)
    IN  IF t = <<JsonSchema>>
        THEN [json |-> "list", entries |-> <<Tok("entry", 1, 9)>>]
        ELSE IF t = <<JsonOther>>
        THEN [json |-> "object", entries |-> <<>>]
        ELSE IF /\ Len(t) >= 2
                /\ t[1] = LB
                /\ t[Len(t)] = RB
                /\ \A i \in 2..(Len(t) - 1) : t[i].k \in EntryKinds
        THEN [json |-> "list", entries |-> SubSeq(t, 2, Len(t) - 1)]
        ELSE [json |-> "invalid", entries |-> <<>>]

\* json.loads accepts the text
ParsesAsJson(text) == json_loads(text).json # "invalid"

\* run_blueprint_update after update_structure returned (never reached while
\* the call above raises)
UiUpdateReturn ==
    /\ gpc = "update"
    /\ rpc = "returned"
    /\ IF Truthy(rresult.error)
       THEN /\ messages' = messages \cup {"error: blueprint update"}
            /\ UNCHANGED blueprint_json
       ELSE IF ParsesAsJson(rresult.text[1])
       THEN /\ blueprint_json' = Some(Strip(rresult.text[1]))
            /\ messages' = messages \cup {"success: blueprint updated"}
       ELSE /\ blueprint_json' = rresult.text
            /\ messages' = messages \cup {"error: invalid JSON"}
    /\ gpc' = "ready"
    /\ PopFrame
    /\ UNCHANGED <<libs, gresult, gstatus, gidx, page_texts, graw_text, grenders,
                   gclassifyLog, gocrLog, gcleanReqs, gret, raw_text>>
    /\ UNCHANGED <<inVars, moreVars, procVars, updVars, gis_digital, clsVars, folVars>>

-----------------------------------------------------------------------------
(* The three implementations of is_image_digital *)

Implementations ==
    {"core_document_processing", "core_document_generator", "classify_image_type"}

\* What the libraries do with the image: state is "ok", "no_lib" (a library
\* the function needs is missing: cv2, numpy or pytesseract is None, or the
\* Tesseract engine is not installed), "undecodable" (no pixel array) or
\* "exception" (cvtColor, Canny or pytesseract raises); textlen is the
\* length of the stripped text Tesseract reads, nconf the number of
\* confidence values other than -1, avg_conf their mean, density the edge
\* density in thousandths.
ClassifierInputs ==
    [ state : {"ok", "no_lib", "undecodable", "exception"},
      textlen : {19, 20},
      nconf : {0, 3},
      avg_conf : {55, 56, 80, 81},
      density : {5, 6, 10, 11, 119, 120} ]

\* classify_image_type.is_image_digital: the whole body is in the try block,
\* so every failure gives False; else fewer than 20 characters or no
\* confidence value gives False; else avg_conf > 55 and edge_density < 0.12
ClassifyImageType(cv) ==
    IF cv.state # "ok" THEN FALSE
    ELSE IF cv.textlen < 20 THEN FALSE
    ELSE IF cv.nconf = 0 THEN FALSE
    ELSE (cv.avg_conf > 55) /\ (cv.density < 120)

\* is_image_digital of the given module; core_document_generator's takes
\* the pixel array, and cvtColor raises on one that is no image
is_image_digital(impl, cv) ==
    CASE impl = "core_document_processing" -> ProcIsImageDigital(cv)
      [] impl = "core_document_generator" ->
            GenIsImageDigital(IF cv.state = "undecodable"
                              THEN [cv EXCEPT !.state = "exception"] ELSE cv)
      [] impl = "classify_image_type" -> ClassifyImageType(cv)

\* one call of is_image_digital
Classify ==
    /\ cpc = "call"
    /\ cresult' = Some(is_image_digital(cimpl, cinput))
    /\ cpc' = "returned"
    /\ UNCHANGED <<cimpl, cinput>>
    /\ UNCHANGED <<inVars, moreVars, procVars, retryVars, genVars, uiVars, updVars, gis_digital, folVars>>

-----------------------------------------------------------------------------
(* main.process_folder *)

\* a file of the walk: an image cv2.imread reads, a file with an image
\* extension that it does not read, or a file with another extension
FileKinds == {"image", "unreadable", "other"}

Folders ==
    { [exists |-> TRUE, files |-> f] :
        f \in UNION { [1..n -> FileKinds] : n \in 0..MaxFiles } }
    \cup { [exists |-> FALSE, files |-> <<>>] }

FolderCvOutcomes ==
    { [state |-> "exception", textlen |-> 0, nconf |-> 0, avg_conf |-> 0, density |-> 0],
      [state |-> "ok", textlen |-> 19, nconf |-> 3, avg_conf |-> 90, density |-> 50],
      [state |-> "ok", textlen |-> 20, nconf |-> 0, avg_conf |-> 0, density |-> 50],
      [state |-> "ok", textlen |-> 20, nconf |-> 3, avg_conf |-> 55, density |-> 50],
      [state |-> "ok", textlen |-> 20, nconf |-> 3, avg_conf |-> 56, density |-> 119],
      [state |-> "ok", textlen |-> 20, nconf |-> 3, avg_conf |-> 56, density |-> 120] }

\* a faulty variant: the branches are exchanged
FolderEngineSwapped(digital) == IF digital THEN "engine_gemini" ELSE "tesseract"

\* if is_image_digital(img): extract_text_tesseract(...) else: extract_text_gemini(...)
FolderEngine(digital) == IF digital THEN "tesseract" ELSE "engine_gemini"

\* the engine behind each of ocr_engine's two functions
EngineOf(site) == IF site = "tesseract" THEN "tesseract" ELSE "gemini"

\* if not os.path.exists(input_folder): return
FolderMissing ==
    /\ fpc = "walk"
    /\ ~folder.exists
    /\ fpc' = "done"
    /\ UNCHANGED <<folder, fidx, fis_digital, fclassifyLog, focrLog, written>>
    /\ UNCHANGED <<inVars, moreVars, procVars, retryVars, genVars, uiVars, updVars, gis_digital, clsVars>>

\* a file that is no image, or that cv2.imread does not read: continue
FolderSkip ==
    /\ fpc = "walk"
    /\ folder.exists
    /\ fidx <= Len(folder.files)
    /\ folder.files[fidx] # "image"
    /\ fidx' = fidx + 1
    /\ UNCHANGED <<folder, fpc, fis_digital, fclassifyLog, focrLog, written>>
    /\ UNCHANGED <<inVars, moreVars, procVars, retryVars, genVars, uiVars, updVars, gis_digital, clsVars>>

\* an image: classify it and call the engine of the branch taken
FolderOcr ==
    /\ fpc = "walk"
    /\ folder.exists
    /\ fidx <= Len(folder.files)
    /\ folder.files[fidx] = "image"
    /\ fclassifyLog' = Append(fclassifyLog, fidx)
    /\ \E cv \in FolderCvOutcomes : fis_digital' = ClassifyImageType(cv)
    /\ LET site == FolderEngine(fis_digital')
       IN  /\ focrLog' = Append(focrLog, [page |-> fidx, engine |-> EngineOf(site)])
           /\ Invoke(site, IF site = "tesseract" THEN imdecode(PngBytes(fidx))
                                                 ELSE PngBytes(fidx))
    /\ fpc' = "ocr"
    /\ UNCHANGED <<folder, fidx, written, clientVars>>
    /\ UNCHANGED <<inVars, moreVars, procVars, genVars, uiVars, updVars, gis_digital, clsVars>>

\* the engine returned: write the text file (an error while writing is
\* caught and the walk goes on)
FolderOcrReturn ==
    /\ fpc = "ocr"
    /\ rpc = "returned"
    /\ \E saved \in BOOLEAN :
          written' = IF saved
                     THEN Append(written, [file |-> fidx, text |-> rresult.text[1]])
                     ELSE written
    /\ fidx' = fidx + 1
    /\ fpc' = "walk"
    /\ PopFrame
    /\ UNCHANGED <<folder, fis_digital, fclassifyLog, focrLog>>
    /\ UNCHANGED <<inVars, moreVars, procVars, genVars, uiVars, updVars, gis_digital, clsVars>>

\* the walk is over
FolderDone ==
    /\ fpc = "walk"
    /\ folder.exists
    /\ fidx > Len(folder.files)
    /\ fpc' = "done"
    /\ UNCHANGED <<folder, fidx, fis_digital, fclassifyLog, focrLog, written>>
    /\ UNCHANGED <<inVars, moreVars, procVars, retryVars, genVars, uiVars, updVars, gis_digital, clsVars>>

-----------------------------------------------------------------------------
(* The consumers of the blueprint, and the script run of ui.main that calls *)
(* them                                                                     *)

\* what a consumer returns: (value, error), or an exception raised out of it
Value(titles) == [raised |-> FALSE, value |-> Some(titles), error |-> None]
Error(msg) == [raised |-> FALSE, value |-> None, error |-> Some(msg)]
Raised(exc) == [raised |-> TRUE, value |-> None, error |-> Some(exc)]

\* the title string of a full entry, f"Slide {i+1}", and str(None)
TitleOf(e) == Tok("title", e.p, 9)
DefaultTitle(i) == Tok("Slide", i, 7)
NoneText == Tok("None", 0, 4)

\* entry.get('title', default): the default only where the key is missing
GetTitle(e, default) ==
    CASE e.k = "entry" -> Some(TitleOf(e))
      [] e.k = "entry_no_title" -> Some(default)
      [] e.k = "entry_null_title" -> None

\* the for loop over json.loads' value, calling entry.get on each member: a
\* string member, and each key an object yields, has no attribute get
ForEachEntry(data, title(_, _)) ==
    IF data.json = "object" THEN Raised("AttributeError")
    ELSE IF \E i \in 1..Len(data.entries) : data.entries[i].k = "string"
    THEN Raised("AttributeError")
    ELSE Value([i \in 1..Len(data.entries) |-> title(data.entries[i], i)])

\* core_document_generator.create_docx: the heading of each entry
DocxTitle(e, i) == GetTitle(e, DefaultTitle(i))

create_docx(slides_data, lib) ==
    IF ~lib THEN Error("python-docx library is not available.")
    ELSE LET data == json_loads(slides_data)
         IN  IF data.json = "invalid"
             THEN Error("Failed to parse blueprint data for DOCX.")
             ELSE ForEachEntry(data, DocxTitle)

\* core_document_generator.create_markdown_report: f"## Slide {i+1}: {title}"
MarkdownTitle(e, i) ==
    LET title == GetTitle(e, DefaultTitle(i))
    IN  IF title = None THEN Some(NoneText) ELSE title

create_markdown_report(slides_data) ==
    LET data == json_loads(slides_data)
    IN  IF data.json = "invalid"
        THEN Error("Failed to parse blueprint data for Markdown.")
        ELSE ForEachEntry(data, MarkdownTitle)

\* pptx_designer.create_pptx_with_style: slide.shapes.title.text = slide_title
\* is inside try/except: pass, so a null title leaves the slide without one
PptxTitle(e, i) == GetTitle(e, DefaultTitle(i))

create_pptx_with_style(slides_data) ==
    LET data == json_loads(slides_data)
    IN  IF data.json = "invalid"
        THEN Error("Failed to parse JSON blueprint.")
        ELSE ForEachEntry(data, PptxTitle)

\* ui.render_slide_preview: every exception is caught and shown
render_slide_preview(json_data) ==
    LET data == json_loads(json_data)
    IN  IF data.json = "invalid"
        THEN "error: blueprint is not valid JSON"
        ELSE IF ForEachEntry(data, DocxTitle).raised
        THEN "error: could not render preview"
        ELSE "info: preview"

OutputTypes == {"pptx", "doc", "both"}
is_pptx_output == output_type \in {"pptx", "both"}
is_doc_output == output_type \in {"doc", "both"}

\* what the user may have typed into the JSON editor
EditedTexts ==
    { <<LB, Tok("entry", 1, 9), RB>>, <<LB, Tok("entry", 1, 9)>>, <<Prose>> }

\* if st.session_state.blueprint_json: (false: nothing below is shown)
RenderNoBlueprint ==
    /\ epc = "tabs"
    /\ ~Truthy(blueprint_json)
    /\ epc' = "rendered"
    /\ UNCHANGED <<output_type, Document, emitted, uncaught>>
    /\ UNCHANGED <<inVars, procVars, retryVars, genVars, uiVars, updVars, gis_digital,
                   clsVars, folVars, laterVars>>

\* the preview tab
RenderPreview ==
    /\ epc = "tabs"
    /\ Truthy(blueprint_json)
    /\ messages' = IF is_pptx_output
                   THEN messages \cup {render_slide_preview(blueprint_json[1])}
                   ELSE messages
    /\ epc' = "editor"
    /\ UNCHANGED <<output_type, Document, emitted, uncaught>>
    /\ UNCHANGED <<inVars, procVars, retryVars, genVars, raw_text, blueprint_json,
                   updVars, gis_digital, clsVars, folVars, laterVars>>

\* the JSON editor: the text area's value, the same as stored or edited
RenderEditor ==
    /\ epc = "editor"
    /\ \E edited_json \in EditedTexts \cup {blueprint_json[1]} :
          IF edited_json # blueprint_json[1]
          THEN /\ blueprint_json' = Some(edited_json)
               /\ messages' = messages \cup
                     { IF ParsesAsJson(edited_json) THEN "success: JSON updated locally"
                       ELSE "error: invalid JSON format" }
          ELSE UNCHANGED <<blueprint_json, messages>>
    /\ epc' = "pptx"
    /\ UNCHANGED <<output_type, Document, emitted, uncaught>>
    /\ UNCHANGED <<inVars, procVars, retryVars, genVars, raw_text, updVars, gis_digital,
                   clsVars, folVars, laterVars>>

\* a consumer returned r: show it, or the exception ends the script run
Consumed(name, r, next) ==
    /\ emitted' = Append(emitted, [consumer |-> name, result |-> r])
    /\ IF r.raised
       THEN /\ uncaught' = r.error
            /\ epc' = "crashed"
            /\ UNCHANGED messages
       ELSE /\ UNCHANGED uncaught
            /\ epc' = next
            /\ messages' = IF r.value = None /\ r.error # None
                           THEN messages \cup {"error: " \o name}
                           ELSE messages

\* the download tab: the PPTX button, clicked or not
RenderPptx ==
    /\ epc = "pptx"
    /\ \E clicked \in BOOLEAN :
          IF is_pptx_output /\ clicked
          THEN Consumed("create_pptx_with_style",
                        create_pptx_with_style(blueprint_json[1]), "docx")
          ELSE /\ epc' = "docx"
               /\ UNCHANGED <<emitted, uncaught, messages>>
    /\ UNCHANGED <<output_type, Document>>
    /\ UNCHANGED <<inVars, procVars, retryVars, genVars, raw_text, blueprint_json,
                   updVars, gis_digital, clsVars, folVars, laterVars>>

RenderDocx ==
    /\ epc = "docx"
    /\ IF is_doc_output
       THEN Consumed("create_docx", create_docx(blueprint_json[1], Document), "markdown")
       ELSE /\ epc' = "rendered"
            /\ UNCHANGED <<emitted, uncaught, messages>>
    /\ UNCHANGED <<output_type, Document>>
    /\ UNCHANGED <<inVars, procVars, retryVars, genVars, raw_text, blueprint_json,
                   updVars, gis_digital, clsVars, folVars, laterVars>>

RenderMarkdown ==
    /\ epc = "markdown"
    /\ Consumed("create_markdown_report", create_markdown_report(blueprint_json[1]),
                "rendered")
    /\ UNCHANGED <<output_type, Document>>
    /\ UNCHANGED <<inVars, procVars, retryVars, genVars, raw_text, blueprint_json,
                   updVars, gis_digital, clsVars, folVars, laterVars>>

-----------------------------------------------------------------------------
(* main.py's script after process_folder: combine_texts_in_folder *)

\* the most page text files a folder holds
MaxTextFiles == 10

\* file names are strings of character codes, compared as Python compares str
RECURSIVE Digits(_)
Digits(n) == IF n < 10 THEN <<48 + n>> ELSE Digits(n \div 10) \o <<48 + (n % 10)>>

PagePrefix == <<112, 97, 103, 101, 95>>
TxtSuffix == <<46, 116, 120, 116>>
CombinedMark == <<95, 99, 111, 109, 98, 105, 110, 101, 100>>

\* page_{i + 1}.png of convert_pdf_to_images, splitext(fname)[0] + ".txt"
FileName(i) == PagePrefix \o Digits(i) \o TxtSuffix

\* f"{folder_name}_combined.txt"
CombinedName(folder_name) == folder_name \o CombinedMark \o TxtSuffix

\* str.endswith
EndsWith(f, suffix) ==
    /\ Len(f) >= Len(suffix)
    /\ SubSeq(f, Len(f) - Len(suffix) + 1, Len(f)) = suffix

\* the in operator on str
Contains(f, part) ==
    \E i \in 1..(Len(f) - Len(part) + 1) : SubSeq(f, i, i + Len(part) - 1) = part

\* < on str: the first differing character decides, a proper prefix is less
StrLess(a, b) ==
    \E k \in 1..(Len(b)) :
        /\ \A j \in 1..(k - 1) : j <= Len(a) /\ a[j] = b[j]
        /\ \/ k = Len(a) + 1
           \/ k <= Len(a) /\ a[k] < b[k]

\* sorted(txt_files)
RECURSIVE sorted(_)
sorted(files) ==
    IF files = {} THEN <<>>
    ELSE LET first == CHOOSE f \in files :
                          \A g \in files \ {f} : StrLess(f.name, g.name)
         IN <<first>> \o sorted(files \ {first})

\* txt_files = [f for f in files if f.endswith('.txt') and "_combined" not in f]
TxtFiles(files) ==
    { f \in files : EndsWith(f.name, TxtSuffix) /\ ~Contains(f.name, CombinedMark) }

\* a file of the output folder: its name and the page whose text it holds
\* (0: not a page's text)
PageFile(i) == [name |-> FileName(i), page |-> i]
SubFolderName == <<100, 111, 99>>
StaleCombined == [name |-> CombinedName(SubFolderName), page |-> 0]
RootNote == [name |-> <<110>> \o TxtSuffix, page |-> 0]

\* the output folder after process_folder: the base folder, then the
\* subfolder of one PDF's pages
OutputTrees ==
    { << [root |-> "base", folder_name |-> <<111, 117, 116>>,
          files |-> IF note THEN {RootNote} ELSE {}],
         [root |-> "sub", folder_name |-> SubFolderName,
          files |-> { PageFile(i) : i \in 1..n }
                    \cup (IF stale THEN {StaleCombined} ELSE {})] >> :
        n \in 0..MaxTextFiles, stale \in BOOLEAN, note \in BOOLEAN }

\* what the with block writes: one header, text and separator per file
CombinedContent(txt_files) ==
    [i \in 1..Len(sorted(txt_files)) |->
        [header |-> sorted(txt_files)[i].name, page |-> sorted(txt_files)[i].page]]

\* the value combine_texts_in_folder returns: it has no return statement
CombineReturnsWrittenPath(paths) ==
    IF paths = <<>> THEN None ELSE Some(paths[Len(paths)].path)

CombineReturnValue(paths) == None

\* combined_text_path = combine_texts_in_folder(output_folder): the call
CombineEnter ==
    /\ mpc = "combine"
    /\ mpc' = "walk"
    /\ widx' = 1
    /\ UNCHANGED <<tree, combined_files, combined_text_path>>
    /\ UNCHANGED <<coreVars, ocrVars, nlpVars>>

\* one iteration of the os.walk loop
CombineFolder ==
    /\ mpc = "walk"
    /\ widx <= Len(tree)
    /\ LET dir == tree[widx]
           txt_files == TxtFiles(dir.files)
       IN  combined_files' =
               IF txt_files = {} \/ dir.root = "base"
               THEN combined_files
               ELSE Append(combined_files,
                           [path |-> CombinedName(dir.folder_name),
                            content |-> CombinedContent(txt_files)])
    /\ widx' = widx + 1
    /\ UNCHANGED <<tree, mpc, combined_text_path>>
    /\ UNCHANGED <<coreVars, ocrVars, nlpVars>>

\* the walk is over: the function returns, the script assigns
CombineReturn ==
    /\ mpc = "walk"
    /\ widx > Len(tree)
    /\ combined_text_path' = CombineReturnValue(combined_files)
    /\ mpc' = "check"
    /\ UNCHANGED <<tree, widx, combined_files>>
    /\ UNCHANGED <<coreVars, ocrVars, nlpVars>>

\* if not combined_text_path: ... exit(); otherwise the cleaning step is next
MainCheck ==
    /\ mpc = "check"
    /\ mpc' = IF ~Truthy(combined_text_path) THEN "exited" ELSE "clean"
    /\ UNCHANGED <<tree, widx, combined_files, combined_text_path>>
    /\ UNCHANGED <<coreVars, ocrVars, nlpVars>>

-----------------------------------------------------------------------------
(* core_document_generator.extract_text_gemini: two invocations at once,   *)
(* as two sessions of the UI make them; both use temp_ocr_image.png        *)

Invocations == {1, 2}

\* what an invocation is given: the bytes of an image, or the path of an
\* image file; invocation i's image is image i
ImageArgs(i) == { [kind |-> k, img |-> i] : k \in {"bytes", "path"} }

\* everything but the module's client and laterVars
nonClientVars == <<inVars, procVars, callVars, clients, genVars, uiVars, updVars,
                   gis_digital, clsVars, folVars, renVars>>

\* if GENAI_CLIENT is None: build it, or return the client error
XEnter(i) ==
    /\ xpc[i] = "start"
    /\ \E built \in BOOLEAN :
          IF GENAI_CLIENT = None /\ ~built
          THEN /\ xpc' = [xpc EXCEPT ![i] = "returned"]
               /\ UNCHANGED GENAI_CLIENT
          ELSE /\ xpc' = [xpc EXCEPT ![i] =
                              IF image_path_or_bytes[i].kind = "bytes"
                              THEN "write" ELSE "read"]
               /\ GENAI_CLIENT' = IF GENAI_CLIENT = None THEN Some(api_key)
                                  ELSE GENAI_CLIENT
    /\ UNCHANGED <<image_path_or_bytes, image_bytes, xattempt, sent, temp_file>>
    /\ UNCHANGED <<nonClientVars, cmbVars, nlpVars>>

\* with open(temp_file, "wb") as f: f.write(image_path_or_bytes)
XWrite(i) ==
    /\ xpc[i] = "write"
    /\ temp_file' = Some(image_path_or_bytes[i].img)
    /\ xpc' = [xpc EXCEPT ![i] = "read"]
    /\ UNCHANGED <<image_path_or_bytes, image_bytes, xattempt, sent>>
    /\ UNCHANGED <<coreVars, cmbVars, nlpVars>>

\* with open(image_path, "rb") as f: image_bytes = f.read(), outside any try:
\* a missing file ends the invocation with FileNotFoundError
XRead(i) ==
    /\ xpc[i] = "read"
    /\ IF image_path_or_bytes[i].kind = "path"
       THEN /\ image_bytes' = [image_bytes EXCEPT ![i] = Some(image_path_or_bytes[i].img)]
            /\ xpc' = [xpc EXCEPT ![i] = "try"]
       ELSE IF temp_file = None
       THEN /\ xpc' = [xpc EXCEPT ![i] = "raised"]
            /\ UNCHANGED image_bytes
       ELSE /\ image_bytes' = [image_bytes EXCEPT ![i] = temp_file]
            /\ xpc' = [xpc EXCEPT ![i] = "try"]
    /\ xattempt' = [xattempt EXCEPT ![i] = 1]
    /\ UNCHANGED <<image_path_or_bytes, sent, temp_file>>
    /\ UNCHANGED <<coreVars, cmbVars, nlpVars>>

\* one iteration of the retry loop: the remote call with the content built
\* from image_bytes; the temp file is removed on success and on the last
\* failure
XAttempt(i) ==
    /\ xpc[i] = "try"
    /\ sent' = [sent EXCEPT ![i] = Append(@, image_bytes[i][1])]
    /\ \E ok \in BOOLEAN :
          IF ok \/ xattempt[i] >= GenOcrMaxRetries
          THEN /\ temp_file' = None
               /\ xpc' = [xpc EXCEPT ![i] = "returned"]
               /\ UNCHANGED xattempt
          ELSE /\ xattempt' = [xattempt EXCEPT ![i] = @ + 1]
               /\ UNCHANGED <<temp_file, xpc>>
    /\ UNCHANGED <<image_path_or_bytes, image_bytes>>
    /\ UNCHANGED <<coreVars, cmbVars, nlpVars>>

-----------------------------------------------------------------------------
(* 5_NLP: nlp.prepare.prepare_text and the functions it composes.  A text  *)
(* is a sequence of characters; "bullet" stands for the character U+2022  *)

\* the longest input text
MaxChars == 4

Chars == {"a", "B", "-", "\n", " ", "!", "@", "bullet"}

\* \s
IsSpaceChar(c) == c \in {" ", "\n", "\t"}

\* the last index of the longest run of \s starting at i (i - 1: none)
RECURSIVE WsEnd(_, _)
WsEnd(text, i) ==
    IF i <= Len(text) /\ IsSpaceChar(text[i]) THEN WsEnd(text, i + 1) ELSE i - 1

\* the last index of the longest run of \S starting at i (i - 1: none)
RECURSIVE TokEnd(_, _)
TokEnd(text, i) ==
    IF i <= Len(text) /\ ~IsSpaceChar(text[i]) THEN TokEnd(text, i + 1) ELSE i - 1

\* str.lower
LowerChar(c) == IF c = "B" THEN "b" ELSE IF c = "A" THEN "a" ELSE c
lower(text) == [i \in 1..Len(text) |-> LowerChar(text[i])]

\* re.sub(r"-\s*\n\s*", "", text)
RECURSIVE FixHyphenationFrom(_, _)
FixHyphenationFrom(text, i) ==
    IF i > Len(text) THEN <<>>
    ELSE IF text[i] = "-" /\ \E j \in (i + 1)..WsEnd(text, i + 1) : text[j] = "\n"
    THEN FixHyphenationFrom(text, WsEnd(text, i + 1) + 1)
    ELSE <<text[i]>> \o FixHyphenationFrom(text, i + 1)

FixHyphenation(text) == FixHyphenationFrom(text, 1)

\* re.sub(r"\n\s*\n+", "\n", text)
RECURSIVE CollapseBlankLinesFrom(_, _)
CollapseBlankLinesFrom(text, i) ==
    IF i > Len(text) THEN <<>>
    ELSE LET later == { j \in (i + 1)..WsEnd(text, i) : text[j] = "\n" }
         IN  IF text[i] = "\n" /\ later # {}
             THEN <<"\n">> \o CollapseBlankLinesFrom(text,
                                  (CHOOSE j \in later : \A k \in later : k <= j) + 1)
             ELSE <<text[i]>> \o CollapseBlankLinesFrom(text, i + 1)

CollapseBlankLines(text) == CollapseBlankLinesFrom(text, 1)

\* re.sub of the OCR symbols of line 20 with ""
OcrSymbols == {"bullet", "~"}
RemoveSymbols(text) == SelectSeq(text, LAMBDA c : c \notin OcrSymbols)

\* re.sub(r"\s+", " ", text)
RECURSIVE CollapseSpacesFrom(_, _)
CollapseSpacesFrom(text, i) ==
    IF i > Len(text) THEN <<>>
    ELSE IF IsSpaceChar(text[i])
    THEN <<" ">> \o CollapseSpacesFrom(text, WsEnd(text, i) + 1)
    ELSE <<text[i]>> \o CollapseSpacesFrom(text, i + 1)

CollapseSpaces(text) == CollapseSpacesFrom(text, 1)

\* str.strip
StripChars(text) ==
    LET keep == { i \in 1..Len(text) : ~IsSpaceChar(text[i]) }
    IN  IF keep = {} THEN <<>>
        ELSE SubSeq(text, CHOOSE i \in keep : \A k \in keep : i <= k,
                          CHOOSE i \in keep : \A k \in keep : k <= i)

\* unicodedata.normalize("NFKC", text): no character of Chars has a
\* compatibility decomposition
NFKC(text) == text

normalize_text(text) ==
    StripChars(CollapseSpaces(RemoveSymbols(CollapseBlankLines(
        FixHyphenation(lower(NFKC(text)))))))

\* re.sub(r"[^\x00-\x7F]+", " ", text)
NonAscii == {"bullet"}
RECURSIVE ReplaceNonAsciiFrom(_, _)
ReplaceNonAsciiFrom(text, i) ==
    IF i > Len(text) THEN <<>>
    ELSE IF text[i] \in NonAscii
    THEN IF i > 1 /\ text[i - 1] \in NonAscii
         THEN ReplaceNonAsciiFrom(text, i + 1)
         ELSE <<" ">> \o ReplaceNonAsciiFrom(text, i + 1)
    ELSE <<text[i]>> \o ReplaceNonAsciiFrom(text, i + 1)

ReplaceNonAscii(text) == ReplaceNonAsciiFrom(text, 1)

\* text has the literal word at i, followed by at least one \S
StartsUrl(text, i, word) ==
    /\ i + Len(word) <= Len(text)
    /\ SubSeq(text, i, i + Len(word) - 1) = word
    /\ ~IsSpaceChar(text[i + Len(word)])

\* re.sub(r"http\S+|www\S+", "", text)
RECURSIVE RemoveUrlsFrom(_, _)
RemoveUrlsFrom(text, i) ==
    IF i > Len(text) THEN <<>>
    ELSE IF \/ StartsUrl(text, i, <<"h", "t", "t", "p">>)
            \/ StartsUrl(text, i, <<"w", "w", "w">>)
    THEN RemoveUrlsFrom(text, TokEnd(text, i) + 1)
    ELSE <<text[i]>> \o RemoveUrlsFrom(text, i + 1)

RemoveUrls(text) == RemoveUrlsFrom(text, 1)

\* re.sub(r"\S+@\S+", "", text)
RECURSIVE RemoveEmailsFrom(_, _)
RemoveEmailsFrom(text, i) ==
    IF i > Len(text) THEN <<>>
    ELSE IF /\ ~IsSpaceChar(text[i])
            /\ \E j \in (i + 1)..(TokEnd(text, i) - 1) : text[j] = "@"
    THEN RemoveEmailsFrom(text, TokEnd(text, i) + 1)
    ELSE <<text[i]>> \o RemoveEmailsFrom(text, i + 1)

RemoveEmails(text) == RemoveEmailsFrom(text, 1)

\* re.sub(r"([!?.,]){2,}", r"\1", text): a run keeps its last character
Punctuation == {"!", "?", ".", ","}
RECURSIVE PunctEnd(_, _)
PunctEnd(text, i) ==
    IF i <= Len(text) /\ text[i] \in Punctuation THEN PunctEnd(text, i + 1) ELSE i - 1

RECURSIVE CollapsePunctuationFrom(_, _)
CollapsePunctuationFrom(text, i) ==
    IF i > Len(text) THEN <<>>
    ELSE IF PunctEnd(text, i) > i
    THEN <<text[PunctEnd(text, i)]>> \o CollapsePunctuationFrom(text, PunctEnd(text, i) + 1)
    ELSE <<text[i]>> \o CollapsePunctuationFrom(text, i + 1)

CollapsePunctuation(text) == CollapsePunctuationFrom(text, 1)

\* re.sub(r"[^a-zA-Z0-9\s\.\?\!]", " ", text)
Letters == {"a", "b", "A", "B"}
KeptChars == Letters \cup {" ", "\n", "\t", ".", "?", "!"}
RemoveSpecial(text) ==
    [i \in 1..Len(text) |-> IF text[i] \in KeptChars THEN text[i] ELSE " "]

\* clean_text(text), remove_stopwords left at its default False
clean_text(text) ==
    StripChars(CollapseSpaces(RemoveSpecial(CollapsePunctuation(
        RemoveEmails(RemoveUrls(ReplaceNonAscii(text)))))))

\* split_into_sentences: the tokenizer ends a sentence at a terminator that
\* is followed by a space or ends the text, and strips each sentence
Terminators == {".", "!", "?"}
RECURSIVE SentencesFrom(_, _, _)
SentencesFrom(text, start, i) ==
    IF i > Len(text)
    THEN IF start <= Len(text) THEN <<StripChars(SubSeq(text, start, Len(text)))>>
         ELSE <<>>
    ELSE IF text[i] \in Terminators /\ (i = Len(text) \/ text[i + 1] = " ")
    THEN <<StripChars(SubSeq(text, start, i))>> \o SentencesFrom(text, i + 1, i + 1)
    ELSE SentencesFrom(text, start, i + 1)

split_into_sentences(text) == SentencesFrom(text, 1, 1)

\* a faulty variant: the deep clean runs before the normalization
prepare_text_clean_first(raw) ==
    LET c == clean_text(raw)
        n == normalize_text(c)
    IN  [normalized |-> n, cleaned |-> n, sentences |-> split_into_sentences(n)]

\* prepare_text's three locals
prepare_text(raw) ==
    LET n == normalize_text(raw)
        c == clean_text(n)
    IN  [normalized |-> n, cleaned |-> c, sentences |-> split_into_sentences(c)]

\* the texts prepare_text is given
NlpTexts == UNION { [1..n -> Chars] : n \in 0..MaxChars }

\* result = prepare_text(sample)
PrepareText ==
    /\ npc = "call"
    /\ LET r == prepare_text(text_in)
       IN  /\ normalized' = r.normalized
           /\ cleaned' = r.cleaned
           /\ sentences' = r.sentences
           /\ prepared' = Some([clean_text |-> r.cleaned, sentences |-> r.sentences])
    /\ npc' = "returned"
    /\ UNCHANGED text_in
    /\ UNCHANGED <<coreVars, cmbVars, ocrVars>>

-----------------------------------------------------------------------------
(* Specifications *)

UpdIdle ==
    /\ mutations = 0
    /\ updateReqs = <<>>

ClsIdle ==
    /\ cimpl = "none"
    /\ cinput = [state |-> "ok", textlen |-> 0, nconf |-> 0, avg_conf |-> 0, density |-> 0]
    /\ cpc = "idle"
    /\ cresult = None

FolIdle ==
    /\ folder = [exists |-> FALSE, files |-> <<>>]
    /\ fpc = "idle"
    /\ fidx = 0
    /\ fis_digital = FALSE
    /\ fclassifyLog = <<>>
    /\ focrLog = <<>>
    /\ written = <<>>

RenIdle ==
    /\ output_type = "pptx"
    /\ Document = TRUE
    /\ epc = "idle"
    /\ emitted = <<>>
    /\ uncaught = None

CmbIdle ==
    /\ tree = <<>>
    /\ mpc = "idle"
    /\ widx = 0
    /\ combined_files = <<>>
    /\ combined_text_path = None

OcrIdle ==
    /\ image_path_or_bytes = <<>>
    /\ xpc = <<>>
    /\ image_bytes = <<>>
    /\ xattempt = <<>>
    /\ sent = <<>>
    /\ temp_file = None

NlpIdle ==
    /\ text_in = <<>>
    /\ npc = "idle"
    /\ normalized = <<>>
    /\ cleaned = <<>>
    /\ sentences = <<>>
    /\ prepared = None

LaterIdle == CmbIdle /\ OcrIdle /\ NlpIdle

MoreIdle == RenIdle /\ LaterIdle

ExtIdle == UpdIdle /\ gis_digital = FALSE /\ ClsIdle /\ FolIdle /\ MoreIdle

GenIdle ==
    /\ libs = "all"
    /\ gpc = "idle"
    /\ gresult = None
    /\ gstatus = None
    /\ gidx = 0
    /\ page_texts = <<>>
    /\ graw_text = <<>>
    /\ grenders = <<>>
    /\ gclassifyLog = <<>>
    /\ gocrLog = <<>>
    /\ gcleanReqs = <<>>
    /\ gret = Returned(<<>>)

UiIdle ==
    /\ raw_text = None
    /\ blueprint_json = None
    /\ messages = {}

ProcIdle ==
    /\ ppc = "idle"
    /\ pidx = 0
    /\ results = <<>>
    /\ renders = <<>>
    /\ raw_text_pages = <<>>
    /\ classifyLog = <<>>
    /\ is_digital = FALSE
    /\ ocrLog = <<>>
    /\ cleanReqs = <<>>
    /\ pret = Returned(<<>>)

RetryIdle ==
    /\ rsite = "none"
    /\ rpc = "idle"
    /\ rarg = <<>>
    /\ attempt = 0
    /\ delay = 1
    /\ calls = 0
    /\ waits = <<>>
    /\ hist = <<>>
    /\ rresult = Returned(<<>>)
    /\ GENAI_CLIENT = None
    /\ clients = <<>>

\* the payloads a caller passes
Payloads(site) ==
    CASE site = "proc_ocr" -> { b64encode(PngBytes(1)) }
      [] site \in {"gen_ocr", "engine_gemini"} -> { PngBytes(1) }
      [] site = "tesseract" -> { imdecode(PngBytes(1)) }
      [] site = "proc_clean" -> { <<Word(1, 300)>> }
      [] site = "ai" -> { <<Tok("md", 0, 9)>> }

(* one invocation of one of the functions holding a retry loop *)
InitRetry ==
    /\ pdf = [ok |-> FALSE, pages |-> <<>>]
    /\ api_key \in ApiKeys
    /\ ProcIdle
    /\ rsite \in Sites
    /\ rarg \in Payloads(rsite)
    /\ rpc = "call"
    /\ attempt = 0
    /\ delay = 1
    /\ calls = 0
    /\ waits = <<>>
    /\ hist = <<>>
    /\ rresult = Returned(<<>>)
    /\ GENAI_CLIENT = None
    /\ clients = <<>>
    /\ GenIdle
    /\ UiIdle
    /\ ExtIdle

RetryStep ==
    \/ ProcOcrEnter \/ ProcOcrAttempt
    \/ CleanEnter \/ CleanAttempt
    \/ GenOcrEnter \/ GenOcrAttempt
    \/ AiEnter \/ AiAttempt
    \/ TesseractEnter \/ TesseractAttempt
    \/ EngineGeminiEnter \/ EngineGeminiAttempt

NextRetry == RetryStep

SpecRetry == InitRetry /\ [][NextRetry]_vars

\* the function is sequential code: it keeps running until it returns
SpecRetryFair == SpecRetry /\ WF_vars(NextRetry)

(* one run of core_document_processing.process_document_to_cleaned_text *)
InitProcessing ==
    /\ pdf \in Pdfs
    /\ api_key \in ApiKeys
    /\ ppc = "start"
    /\ pidx = 0
    /\ results = <<>>
    /\ renders = <<>>
    /\ raw_text_pages = <<>>
    /\ classifyLog = <<>>
    /\ is_digital = FALSE
    /\ ocrLog = <<>>
    /\ cleanReqs = <<>>
    /\ pret = Returned(<<>>)
    /\ RetryIdle
    /\ GenIdle
    /\ UiIdle
    /\ ExtIdle

NextProcessing ==
    \/ ProcOpen \/ ExtractPage \/ ExtractReturn
    \/ ProcessPageText \/ ProcessPageNoKey \/ ProcessPageOcr \/ ProcessPageOcrReturn
    \/ ProcCombine \/ ProcCleanReturn
    \/ ProcOcrEnter \/ ProcOcrAttempt \/ CleanEnter \/ CleanAttempt

SpecProcessing == InitProcessing /\ [][NextProcessing]_vars

(* one invocation of a function, or one run of the pipeline *)
InitCallsAndProcessing == InitRetry \/ InitProcessing

NextCallsAndProcessing == NextRetry \/ NextProcessing

SpecCallsAndProcessing == InitCallsAndProcessing /\ [][NextCallsAndProcessing]_vars

(* the same run over longer documents of pages with embedded text *)
LongPdfs == { [ok |-> TRUE, pages |-> d] : d \in DocsOf({"digital", "sparse"}, MaxLongPages) }

InitProcessingLong ==
    /\ pdf \in LongPdfs
    /\ api_key \in ApiKeys
    /\ ppc = "start"
    /\ pidx = 0
    /\ results = <<>>
    /\ renders = <<>>
    /\ raw_text_pages = <<>>
    /\ classifyLog = <<>>
    /\ is_digital = FALSE
    /\ ocrLog = <<>>
    /\ cleanReqs = <<>>
    /\ pret = Returned(<<>>)
    /\ RetryIdle
    /\ GenIdle
    /\ UiIdle
    /\ ExtIdle

SpecProcessingLong == InitProcessingLong /\ [][NextProcessing]_vars

(* a session of the UI: ui.py over core_document_generator.py *)
InitGenerator ==
    /\ pdf \in GenPdfs
    /\ api_key \in ApiKeys
    /\ ProcIdle
    /\ RetryIdle
    /\ libs \in LibStates
    /\ gpc = "ready"
    /\ gresult = None
    /\ gstatus = None
    /\ gidx = 0
    /\ page_texts = <<>>
    /\ graw_text = <<>>
    /\ grenders = <<>>
    /\ gclassifyLog = <<>>
    /\ gocrLog = <<>>
    /\ gcleanReqs = <<>>
    /\ gret = Returned(<<>>)
    /\ UiIdle
    /\ ExtIdle

NextGenerator ==
    \/ UiClickProcess \/ UiNoKey
    \/ GenExtract \/ GenPageTesseract \/ GenPageGemini \/ GenPageGeminiReturn
    \/ GenJoin \/ GenClean
    \/ UiExtractionError \/ UiCleanedEmpty \/ UiGenerate \/ UiBlueprintReturn
    \/ UiUpdate
    \/ GenOcrEnter \/ GenOcrAttempt \/ AiEnter \/ AiAttempt

SpecGenerator == InitGenerator /\ [][NextGenerator]_vars

(* one call of one implementation of is_image_digital *)
InitClassifier ==
    /\ pdf = [ok |-> FALSE, pages |-> <<>>]
    /\ api_key = ""
    /\ ProcIdle
    /\ RetryIdle
    /\ GenIdle
    /\ UiIdle
    /\ UpdIdle
    /\ gis_digital = FALSE
    /\ FolIdle
    /\ MoreIdle
    /\ cimpl \in Implementations
    /\ cinput \in ClassifierInputs
    /\ cpc = "call"
    /\ cresult = None

NextClassifier == Classify

SpecClassifier == InitClassifier /\ [][NextClassifier]_vars

(* one run of main.process_folder, after genai.configure() *)
InitFolder ==
    /\ pdf = [ok |-> FALSE, pages |-> <<>>]
    /\ api_key = "key"
    /\ ProcIdle
    /\ RetryIdle
    /\ GenIdle
    /\ UiIdle
    /\ UpdIdle
    /\ gis_digital = FALSE
    /\ ClsIdle
    /\ MoreIdle
    /\ folder \in Folders
    /\ fpc = "walk"
    /\ fidx = 1
    /\ fis_digital = FALSE
    /\ fclassifyLog = <<>>
    /\ focrLog = <<>>
    /\ written = <<>>

NextFolder ==
    \/ FolderMissing \/ FolderSkip \/ FolderOcr \/ FolderOcrReturn \/ FolderDone
    \/ TesseractEnter \/ TesseractAttempt \/ EngineGeminiEnter \/ EngineGeminiAttempt

(* a run of any of the three pipelines *)
InitPipelines == InitProcessing \/ InitGenerator \/ InitFolder

NextPipelines == NextProcessing \/ NextGenerator \/ NextFolder

SpecPipelines == InitPipelines /\ [][NextPipelines]_vars

(* one script run of ui.main over a session with a stored blueprint *)
BlueprintLists ==
    { <<LB>> \o [i \in 1..Len(f) |-> Tok(f[i], i, 9)] \o <<RB>> :
        f \in UNION { [1..n -> EntryKinds] : n \in 0..MaxSlides } }

\* what the model may have returned, after get_ai_response's clean-up
StoredBlueprints ==
    { CleanWrapping(Strip(r)) : r \in AiReplies } \cup BlueprintLists

InitRender ==
    /\ pdf \in { [ok |-> TRUE, pages |-> <<PageText("digital", 1)>>] }
    /\ api_key = "key"
    /\ ProcIdle
    /\ RetryIdle
    /\ GenIdle
    /\ raw_text = Some(<<Tok("md", 0, 9)>>)
    /\ blueprint_json \in { Some(t) : t \in StoredBlueprints }
    /\ messages = {}
    /\ UpdIdle
    /\ gis_digital = FALSE
    /\ ClsIdle
    /\ FolIdle
    /\ output_type \in OutputTypes
    /\ Document \in BOOLEAN
    /\ epc = "tabs"
    /\ emitted = <<>>
    /\ uncaught = None
    /\ LaterIdle

NextRender ==
    \/ RenderNoBlueprint \/ RenderPreview \/ RenderEditor
    \/ RenderPptx \/ RenderDocx \/ RenderMarkdown

SpecRender == InitRender /\ [][NextRender]_vars

CoreIdle ==
    /\ pdf = [ok |-> TRUE, pages |-> <<PageText("digital", 1)>>]
    /\ api_key = "key"
    /\ ProcIdle
    /\ RetryIdle
    /\ GenIdle
    /\ UiIdle
    /\ UpdIdle
    /\ gis_digital = FALSE
    /\ ClsIdle
    /\ FolIdle
    /\ RenIdle

InitCombine ==
    /\ CoreIdle
    /\ OcrIdle
    /\ NlpIdle
    /\ tree \in OutputTrees
    /\ mpc = "combine"
    /\ widx = 0
    /\ combined_files = <<>>
    /\ combined_text_path = None

NextCombine == CombineEnter \/ CombineFolder \/ CombineReturn \/ MainCheck

SpecCombine == InitCombine /\ [][NextCombine]_vars

InitConcurrentOcr ==
    /\ pdf = [ok |-> TRUE, pages |-> <<PageText("digital", 1)>>]
    /\ api_key = "key"
    /\ ProcIdle
    /\ rsite = "none" /\ rpc = "idle" /\ rarg = <<>> /\ attempt = 0 /\ delay = 1
    /\ calls = 0 /\ waits = <<>> /\ hist = <<>> /\ rresult = Returned(<<>>)
    /\ clients = <<>>
    /\ GENAI_CLIENT \in {None, Some("key")}
    /\ GenIdle
    /\ UiIdle
    /\ UpdIdle
    /\ gis_digital = FALSE
    /\ ClsIdle
    /\ FolIdle
    /\ RenIdle
    /\ CmbIdle
    /\ NlpIdle
    /\ image_path_or_bytes \in [Invocations -> UNION { ImageArgs(i) : i \in Invocations }]
    /\ \A i \in Invocations : image_path_or_bytes[i] \in ImageArgs(i)
    /\ xpc = [i \in Invocations |-> "start"]
    /\ image_bytes = [i \in Invocations |-> None]
    /\ xattempt = [i \in Invocations |-> 0]
    /\ sent = [i \in Invocations |-> <<>>]
    /\ temp_file = None

NextConcurrentOcr ==
    \E i \in Invocations : XEnter(i) \/ XWrite(i) \/ XRead(i) \/ XAttempt(i)

SpecConcurrentOcr == InitConcurrentOcr /\ [][NextConcurrentOcr]_vars

InitPrepare ==
    /\ CoreIdle
    /\ CmbIdle
    /\ OcrIdle
    /\ text_in \in NlpTexts
    /\ npc = "call"
    /\ normalized = <<>>
    /\ cleaned = <<>>
    /\ sentences = <<>>
    /\ prepared = None

NextPrepare == PrepareText

SpecPrepare == InitPrepare /\ [][NextPrepare]_vars

-----------------------------------------------------------------------------
(* Properties of core_document_processing *)

Range(seq) == { seq[i] : i \in 1..Len(seq) }
Count(seq, x) == Cardinality({ i \in 1..Len(seq) : seq[i] = x })
IsWord(t) == t.k = "w"
WordsOf(text) == SelectSeq(text, IsWord)
WordsOfPage(text, p) == SelectSeq(text, LAMBDA t : t.k = "w" /\ t.p = p)

\* the page has more than 250 non-whitespace characters of embedded text
IsDigitalPage(i) == CharLen(RemoveWhitespace(pdf.pages[i])) > 250

\* the page loop of process_document_to_cleaned_text is past page i
Processed(i) == (ppc \in {"process", "ocr"} /\ i < pidx) \/ ppc \in {"clean", "done"}

\* C1: every page with more than 250 non-whitespace characters of embedded
\* text is returned by extract_text_from_pdf as (page number, stripped text,
\* None); once the processing loop is past it, its stripped text is among the
\* page texts, and neither is_image_digital nor an OCR engine was ever
\* invoked for it.
C1_DigitalPageUsedDirectly ==
    \A i \in 1..Len(results) :
        IsDigitalPage(i) =>
            /\ results[i] = <<i, Some(Strip(pdf.pages[i])), None>>
            /\ PngBytes(i) \notin Range(classifyLog)
            /\ \A j \in 1..Len(ocrLog) : ocrLog[j].page # i
            /\ ~(rsite = "proc_ocr" /\ rarg = b64encode(PngBytes(i)))
            /\ Processed(i) => Count(raw_text_pages, Strip(pdf.pages[i])) = 1

\* a run that returned, over a document with a digital page after a page
\* that went through OCR
C1_Witness ==
    /\ ppc = "done"
    /\ \E i, j \in 1..Len(results) :
          /\ j < i
          /\ IsDigitalPage(i)
          /\ \E k \in 1..Len(ocrLog) : ocrLog[k].page = j

PageContributions(i) ==
    IF IsDigitalPage(i) THEN { WordsOf(pdf.pages[i]) }
    ELSE IF api_key = "" THEN { <<>> }
    ELSE { WordsOf(r) : r \in OcrReplies(i) } \cup { <<>> }

NonDecreasingPages(words) ==
    \A a, b \in 1..Len(words) : a < b => words[a].p <= words[b].p

ChunksOfFive(n) == (n + 4) \div 5

-----------------------------------------------------------------------------
(* Properties of the retry loops *)

GeminiSites == {"proc_ocr", "proc_clean", "gen_ocr", "ai", "engine_gemini"}

RetryBound(site) ==
    CASE site = "proc_ocr" -> ProcOcrMaxRetries
      [] site = "proc_clean" -> CleanMaxRetries
      [] site = "gen_ocr" -> GenOcrMaxRetries
      [] site = "ai" -> AiMaxRetries
      [] site = "tesseract" -> TesseractMaxRetries
      [] site = "engine_gemini" -> EngineGeminiMaxRetries

\* what the caller gets when the call that answered with reply succeeded
ValueOfReply(site, reply) ==
    IF site = "ai" THEN [text |-> Some(CleanWrapping(Strip(reply))), error |-> None]
    ELSE IF site = "tesseract" THEN Returned(Strip(KeepAllowed(reply)))
    ELSE Returned(Strip(reply))

\* what the caller gets when every attempt failed
ValueOfExhaustion(site) ==
    CASE site \in {"proc_ocr", "tesseract", "engine_gemini"} -> Returned(<<>>)
      [] site = "proc_clean" -> Returned(<<ErrorTag, Tok("cleaning_failed", 0, 9)>>)
      [] site = "gen_ocr" -> Returned(ErrText("[GEMINI OCR ERROR]"))
      [] site = "ai" -> Failed(ErrText("Error connecting to AI after multiple retries"))

\* C5: in the retry loops of core_document_processing.extract_text_gemini and
\* clean_with_gemini and of core_document_generator.extract_text_gemini and
\* get_ai_response, a call that succeeds is the last one made: if the first
\* N-1 calls failed and call N succeeded, then N <= 3, the function returned
\* the value made from call N's answer, and exactly N calls were made.
C5_ReturnsAttemptN ==
    rsite \in {"proc_ocr", "proc_clean", "gen_ocr", "ai"} =>
        /\ calls = Len(hist)
        /\ \A n \in 1..Len(hist) :
              hist[n].out = "ok" =>
                  /\ n = Len(hist)
                  /\ n <= 3
                  /\ rpc = "returned"
                  /\ calls = n
                  /\ rresult = ValueOfReply(rsite, hist[n].reply)

\* clean_with_gemini returned after two failed calls and a third that succeeded
C5_Witness ==
    /\ rsite = "proc_clean"
    /\ rpc = "returned"
    /\ Len(hist) = 3
    /\ hist[1].out = "transient"
    /\ hist[2].out = "transient"
    /\ hist[3].out = "ok"
    /\ calls = 3

NonDecreasing(seq) == \A a, b \in 1..Len(seq) : a < b => seq[a] <= seq[b]

C6_Bounded ==
    /\ calls <= RetryBound(rsite)
    /\ rpc = "try" => calls < RetryBound(rsite)
    /\ Len(waits) < RetryBound(rsite)
    /\ NonDecreasing(waits)
    /\ (rpc = "returned" /\ hist # <<>> /\ hist[Len(hist)].out # "ok") =>
          /\ calls = RetryBound(rsite)
          /\ rresult = ValueOfExhaustion(rsite)

\* C6: every retry loop returns; it makes at most its bound of calls (3 for
\* the Gemini calls, 2 for ocr_engine.extract_text_tesseract), the waits
\* between calls never decrease, and when the last call fails the function
\* returns its error value.
C6_RetryLoopTerminates == [](C6_Bounded) /\ <>(rpc = "returned")

\* clean_with_gemini returned its error text after three failed calls and
\* waits of 1 and 2
C6_Witness ==
    /\ rsite = "proc_clean"
    /\ rpc = "returned"
    /\ calls = 3
    /\ \A n \in 1..Len(hist) : hist[n].out # "ok"
    /\ waits = <<1, 2>>
    /\ rresult = Returned(<<ErrorTag, Tok("cleaning_failed", 0, 9)>>)

\* C7 as stated: in the loops around a remote call, an error that is not
\* transient ends the call at once: it is the last call made, the function
\* has returned, and no wait followed it.
C7_NonTransientFailsAtOnce ==
    rsite \in GeminiSites =>
        \A n \in 1..Len(hist) :
            hist[n].out = "fatal" =>
                /\ n = Len(hist)
                /\ rpc = "returned"
                /\ Len(waits) = n - 1

\* C8 as stated: every loop around a remote call retries a failed call up
\* to its bound and doubles the wait: after two failures the waits are d and 2d.
C8_WaitDoubles ==
    rsite \in GeminiSites =>
        /\ Len(waits) >= 2 => waits[2] = 2 * waits[1]
        /\ (rpc = "returned" /\ hist # <<>> /\ hist[Len(hist)].out # "ok") =>
              calls = RetryBound(rsite)

-----------------------------------------------------------------------------
(* Properties of the UI pipeline *)

\* pages with embedded text enough for extract_text_from_pdf, and pages with none
TextPages == { i \in 1..Len(pdf.pages) : CharLen(Strip(pdf.pages[i])) > EmbeddedTextMin }
ScannedPages == { i \in 1..Len(pdf.pages) : pdf.pages[i] = <<>> }
MixedDocument ==
    /\ TextPages # {}
    /\ ScannedPages # {}
    /\ TextPages \cup ScannedPages = 1..Len(pdf.pages)

\* C3 as stated: the pipeline the UI calls decides per page: for a document
\* mixing pages with embedded text and scanned pages, a run that went through
\* cleaning rendered, classified and OCRed exactly the scanned pages, and
\* sent their page entries to cleaning.
C3_PerPageDecision ==
    (gpc = "returned" /\ pdf.ok /\ libs = "all" /\ MixedDocument /\ gcleanReqs # <<>>) =>
        /\ Range(grenders) = ScannedPages
        /\ Range(gclassifyLog) = ScannedPages
        /\ { gocrLog[j].page : j \in 1..Len(gocrLog) } = ScannedPages
        /\ \A i \in ScannedPages :
              \E k \in 1..Len(gcleanReqs[1]) : gcleanReqs[1][k] = Tok("--- Page", i, 12)

\* json.loads gives a list of objects with a string title and a list of
\* strings as content
ParsesAsSchema(text) == Strip(text) = <<JsonSchema>>

\* C10 as stated: the session blueprint is text that parses as the slide
\* schema, or the generation reported an error.
C10_BlueprintValidOrFlagged ==
    blueprint_json # None =>
        \/ ParsesAsSchema(blueprint_json[1])
        \/ "error: blueprint generation" \in messages

\* C11 as stated, seen from the session: a mutation that did not replace the
\* blueprint by valid JSON left the blueprint as it was and reported its
\* error to the user: the parse error when the reply was not valid JSON, the
\* update error when the call failed.
C11_InvalidReplyRejected ==
    (mutations > 0 /\ gpc = "ready" /\ "success: blueprint updated" \notin messages) =>
        \/ "error: invalid JSON" \in messages
        \/ "error: blueprint update" \in messages

\* C12 as stated: every mutation made exactly one update_structure request,
\* which carries the stored blueprint as CURRENT_JSON, the user's text as
\* USER_INSTRUCTION and the session's API key.
C12_OneUpdateRequest ==
    /\ Len(updateReqs) = mutations
    /\ \A r \in 1..Len(updateReqs) :
          /\ updateReqs[r].USER_INSTRUCTION \in Instructions
          /\ updateReqs[r].api_key = api_key
          /\ (r = Len(updateReqs) /\ gpc = "update") =>
                updateReqs[r].CURRENT_JSON = blueprint_json[1]

\* C13: in a UI run the stages come in the order extraction, OCR, cleaning,
\* structuring: OCR runs before any cleaning request, structuring runs only
\* after the pipeline returned non-empty cleaned text without error, and
\* after an extraction or cleaning error no later stage runs and no
\* blueprint is stored.
C13_StageOrder ==
    /\ gpc \in {"extract", "ocr_loop", "ocr_wait", "clean"} =>
          (gcleanReqs = <<>> /\ rsite # "ai")
    /\ gpc = "extract" => gocrLog = <<>>
    /\ rsite = "gen_ocr" => gpc = "ocr_wait"
    /\ gpc = "returned" => rsite = "none"
    /\ rsite = "ai" => gpc = "blueprint"
    /\ gpc = "blueprint" =>
          /\ rsite = "ai"
          /\ Truthy(raw_text)
          /\ Len(gcleanReqs) = 1
          /\ "success: cleaned" \in messages
          /\ "error: extraction/cleaning" \notin messages
    /\ "error: extraction/cleaning" \in messages =>
          /\ gpc = "ready"
          /\ rsite = "none"
          /\ raw_text = None
          /\ blueprint_json = None
          /\ "success: blueprint generated" \notin messages
          /\ gcleanReqs = <<>> => gocrLog = <<>>

\* a run that went through OCR and whose cleaning call failed
C13_Witness ==
    /\ gpc = "ready"
    /\ "error: extraction/cleaning" \in messages
    /\ gocrLog # <<>>
    /\ Len(gcleanReqs) = 1
    /\ blueprint_json = None

C15_OpenFailureIsFatal ==
    ~pdf.ok =>
        /\ grenders = <<>>
        /\ gclassifyLog = <<>>
        /\ gocrLog = <<>>
        /\ gcleanReqs = <<>>
        /\ rsite = "none"
        /\ blueprint_json = None
        /\ gpc \in {"ready", "extract", "returned"}
        /\ gpc = "returned" => (gret.text = None /\ Truthy(gret.error))
        /\ "success: cleaned" \notin messages

\* the run over a PDF that does not open ended with the error shown
C15_Witness ==
    /\ ~pdf.ok
    /\ libs = "all"
    /\ gpc = "ready"
    /\ "error: extraction/cleaning" \in messages

-----------------------------------------------------------------------------
(* Error handling of core_document_processing *)

\* the retry loop in flight has made its last call and it failed
Exhausted == rpc = "returned" /\ hist # <<>> /\ hist[Len(hist)].out # "ok"

C16_NoTextNoCleaning ==
    (ppc \in {"clean", "done"} /\ raw_text_pages = <<>>) =>
        /\ ppc = "done"
        /\ cleanReqs = <<>>
        /\ pret.text = None
        /\ Truthy(pret.error)

C16_CleaningFailureStep ==
    (ppc = "clean" /\ rsite = "proc_clean" /\ Exhausted /\ ppc' = "done") =>
        /\ pret'.text = None
        /\ Truthy(pret'.error)

\* C16: when no page yields text, process_document_to_cleaned_text returns
\* (None, error message) without a cleaning request; and when
\* clean_with_gemini failed on all its attempts it returns (None, error
\* message), never a text.
C16_ErrorsReturnNoText == [](C16_NoTextNoCleaning) /\ [][C16_CleaningFailureStep]_vars

\* a run with a key that returned its error after OCR read nothing off
\* every page
C16_Witness ==
    /\ ppc = "done"
    /\ api_key # ""
    /\ Len(ocrLog) >= 2
    /\ Len(ocrLog) = Len(pdf.pages)
    /\ raw_text_pages = <<>>
    /\ pret = Failed(<<ErrorTag, Tok("no_text", 0, 9)>>)

\* what each function returns for a missing key
ValueOfMissingKey(site) ==
    CASE site = "proc_ocr" -> Returned(<<>>)
      [] site = "proc_clean" -> Returned(<<ErrorTag, Tok("key_missing", 0, 9)>>)
      [] site = "ai" -> Failed(ErrText("API Key is missing."))

\* C17: with an empty API key, get_ai_response, clean_with_gemini and
\* core_document_processing.extract_text_gemini return their error value
\* without entering their loop or making a remote call, and a run of
\* core_document_processing.process_document_to_cleaned_text makes no remote
\* call and returns (None, error).
C17_MissingKeyFailsFast ==
    (api_key = "" /\ rsite \in {"none", "proc_ocr", "proc_clean", "ai"}) =>
        /\ calls = 0
        /\ hist = <<>>
        /\ waits = <<>>
        /\ rpc # "try"
        /\ (rpc = "returned") => rresult = ValueOfMissingKey(rsite)
        /\ (ppc = "done") => (pret.text = None /\ Truthy(pret.error))

\* a run without a key over a document with digital text: the cleaning
\* step was reached and the run returned the missing-key error
C17_Witness ==
    /\ api_key = ""
    /\ ppc = "done"
    /\ Len(cleanReqs) = 1
    /\ pret = Failed(<<ErrorTag, Tok("key_missing", 0, 9)>>)

\* an inline error marker in a page text
IsErrorMarker(t) == t.k \in {"[ERROR]", "[GEMINI OCR ERROR]", "[TESSERACT ERROR]"}

\* C18 as stated, for core_document_processing: when the OCR call of a page
\* has failed on all its attempts, the run goes on with the next page and
\* the page's place in the page texts holds an error marker.
C18_FailedPageMarked ==
    [][(ppc = "ocr" /\ rsite = "proc_ocr" /\ Exhausted /\ pidx' = pidx + 1) =>
          /\ ppc' = "process"
          /\ Len(raw_text_pages') = Len(raw_text_pages) + 1
          /\ \E k \in 1..Len(raw_text_pages'[Len(raw_text_pages')]) :
                IsErrorMarker(raw_text_pages'[Len(raw_text_pages')][k])]_vars

-----------------------------------------------------------------------------
(* The classifier and the choice of the OCR engine *)

\* C19: whichever implementation of is_image_digital is called, when the
\* libraries fail (image that does not decode, missing library, exception
\* in edge detection or OCR) it returns False.
C19_FailureDefaultsToHandwritten ==
    (cpc = "returned" /\ cinput.state # "ok") => cresult = Some(FALSE)

\* the entry an engine invocation adds to a log
NewEntry(log, log2) == log2[Len(log2)]
Extended(log, log2) == Len(log2) = Len(log) + 1 /\ SubSeq(log2, 1, Len(log)) = log
OncePerPage(log) ==
    \A j, k \in 1..Len(log) : log[j].page = log[k].page => j = k
ByClassifier(digital) == IF digital THEN "tesseract" ELSE "gemini"

\* every page or image classified was sent to an engine, once
C20_OneEnginePerPage ==
    /\ Len(ocrLog) = Len(classifyLog) /\ OncePerPage(ocrLog)
    /\ \A j \in 1..Len(ocrLog) : classifyLog[j] = PngBytes(ocrLog[j].page)
    /\ [j \in 1..Len(gocrLog) |-> gocrLog[j].page] = gclassifyLog /\ OncePerPage(gocrLog)
    /\ [j \in 1..Len(focrLog) |-> focrLog[j].page] = fclassifyLog /\ OncePerPage(focrLog)

C20_GeneratorStep ==
    (gocrLog' # gocrLog /\ gocrLog' # <<>>) =>
        /\ Extended(gocrLog, gocrLog')
        /\ NewEntry(gocrLog, gocrLog') = [page |-> gidx, engine |-> ByClassifier(gis_digital')]
        /\ rsite' = IF gis_digital' THEN "none" ELSE "gen_ocr"

C20_FolderStep ==
    (focrLog' # focrLog) =>
        /\ Extended(focrLog, focrLog')
        /\ NewEntry(focrLog, focrLog') = [page |-> fidx, engine |-> ByClassifier(fis_digital')]
        /\ rsite' = IF fis_digital' THEN "tesseract" ELSE "engine_gemini"

C20_ProcessingStepAsStated ==
    (ocrLog' # ocrLog) =>
        /\ Extended(ocrLog, ocrLog')
        /\ NewEntry(ocrLog, ocrLog') = [page |-> pidx, engine |-> ByClassifier(is_digital')]

C20_ProcessingStep ==
    (ocrLog' # ocrLog) =>
        /\ Extended(ocrLog, ocrLog')
        /\ NewEntry(ocrLog, ocrLog') = [page |-> pidx, engine |-> "gemini"]
        /\ rsite' = "proc_ocr"

-----------------------------------------------------------------------------
(* Frame of extract_text_from_pdf *)

\* C21 as stated: core_document_processing.extract_text_from_pdf renders
\* only the pages at or below the text threshold; a page whose embedded text
\* is above it is never rendered to an image.
C21_DigitalPageNotRendered ==
    \A j \in 1..Len(renders) : ~IsDigitalPage(renders[j])

-----------------------------------------------------------------------------
(* The stored blueprint and its consumers *)

\* C22 as stated: whatever the remote model returned as a blueprint (no
\* text, text that is no JSON, JSON of another shape), the script run of
\* ui.main that previews and exports it ends without an uncaught exception.
C22_NoUncaughtException == uncaught = None /\ epc # "crashed"

StoredIsJson(b) == Truthy(b) /\ ParsesAsJson(b[1])

\* C23 as stated: a stored blueprint that is valid JSON stays valid JSON; an
\* edit in the JSON editor whose text does not parse does not replace it.
C23_StoredBlueprintStaysValid ==
    [][StoredIsJson(blueprint_json) => StoredIsJson(blueprint_json')]_vars

HasTitle(e) == e.k = "entry"

\* C25 as stated: for a blueprint that is a list of entries, every consumer
\* that returned a document emitted one title per entry, the entry's own
\* title or, where the key is missing or the value null, the default title;
\* and no entry made a consumer fail.
C25_TitleAlwaysPresent ==
    \A j \in 1..Len(emitted) :
        LET r == emitted[j].result
            data == json_loads(blueprint_json[1])
        IN  (data.json = "list" /\ \A i \in 1..Len(data.entries) : data.entries[i].k # "string")
            => /\ ~r.raised
               /\ r.value # None =>
                    /\ Len(r.value[1]) = Len(data.entries)
                    /\ \A i \in 1..Len(data.entries) :
                          r.value[1][i] = IF HasTitle(data.entries[i])
                                          THEN Some(TitleOf(data.entries[i]))
                                          ELSE Some(DefaultTitle(i))

-----------------------------------------------------------------------------
(* The remote API client of core_document_generator *)

\* the clients built so far in the run: the shared one, if built, and the
\* local ones
ClientsBuilt == (IF GENAI_CLIENT # None THEN 1 ELSE 0) + Len(clients)

\* C24 as stated: in one run core_document_generator builds at most one
\* genai.Client, the module's GENAI_CLIENT, and every remote call of the run
\* goes through it: no function builds a client of its own.
C24_SingleSharedClient ==
    /\ clients = <<>>
    /\ ClientsBuilt <= 1

-----------------------------------------------------------------------------
(* Properties of combine_texts_in_folder and of main.py's script *)

\* the pages whose text a combined file holds, in the order it holds them
PagesOf(content) ==
    LET idx == { i \in 1..Len(content) : content[i].page # 0 }
        F[i \in 0..Len(content)] ==
            IF i = 0 THEN <<>>
            ELSE IF i \in idx THEN Append(F[i - 1], content[i].page) ELSE F[i - 1]
    IN  F[Len(content)]

\* the page text files of the folder a combined file was written for
PageCount == Cardinality({ f \in tree[2].files : f.page # 0 })

\* C26 as stated: the combined file of a folder holding page_1.txt ..
\* page_n.txt has the pages' texts in page order, page i before page j
\* whenever i < j, each exactly once, whatever n is.
C26_PageOrderPreserved ==
    \A k \in 1..Len(combined_files) :
        PagesOf(combined_files[k].content) = [i \in 1..PageCount |-> i]

\* C29: combine_texts_in_folder returns None on every path, also after it
\* wrote a combined file, so the script's check of combined_text_path always
\* takes the error exit: cleaning and export are never reached.
C29_ScriptAlwaysExits ==
    /\ mpc \in {"check", "exited"} => combined_text_path = None
    /\ mpc \notin {"clean", "export"}

\* the script exited although a combined file with page texts was written
C29_Witness ==
    /\ mpc = "exited"
    /\ combined_files # <<>>
    /\ Len(combined_files[1].content) >= 2

-----------------------------------------------------------------------------
(* The session state the UI callbacks write *)

\* the pipeline returned to run_extraction_and_cleaning
ExtractionReturns == gpc = "returned" /\ gpc' # "returned"

\* generate_initial_structure returned to run_blueprint_generation
GenerationReturns == gpc = "blueprint" /\ gpc' = "ready"

\* update_structure returned to run_blueprint_update
UpdateReturns == gpc = "update" /\ gpc' = "ready"

C27_Step ==
    /\ (ExtractionReturns /\ Truthy(gret.error)) =>
          (raw_text' = None /\ blueprint_json' = None)
    /\ (ExtractionReturns /\ ~Truthy(gret.error)) =>
          (raw_text' = gret.text /\ blueprint_json' = blueprint_json)
    /\ (gpc # "blueprint" /\ gpc' = "blueprint") =>
          (gpc = "returned" /\ raw_text' = gret.text /\ rpc' = "call" /\ calls' = 0)
    /\ (gpc = "blueprint" /\ calls' # calls) => Truthy(raw_text)
    /\ (GenerationReturns /\ Truthy(rresult.error)) =>
          (blueprint_json' = None /\ raw_text' = raw_text)
    /\ GenerationReturns => raw_text' = raw_text
    /\ (UpdateReturns /\ Truthy(rresult.error)) =>
          (raw_text' = raw_text /\ blueprint_json' = blueprint_json)
    /\ mutations' # mutations =>
          (raw_text' = raw_text /\ blueprint_json' = blueprint_json)
    /\ ~(ExtractionReturns \/ GenerationReturns \/ UpdateReturns) =>
          (raw_text' = raw_text /\ blueprint_json' = blueprint_json)

\* C27: run_extraction_and_cleaning sets raw_text and blueprint_json to None
\* on an error, and on success sets raw_text before the blueprint request is
\* made; run_blueprint_generation on an error sets blueprint_json to None and
\* leaves raw_text; run_blueprint_update on an error leaves both; nothing
\* else writes the two.
C27_CallbackFrame == [][C27_Step]_vars

\* a run whose blueprint generation failed: the cleaned text is kept
C27_Witness ==
    /\ gpc = "ready"
    /\ "error: blueprint generation" \in messages
    /\ Truthy(raw_text)
    /\ blueprint_json = None

-----------------------------------------------------------------------------
(* Properties of extract_text_gemini under two invocations *)

\* C28 as stated: every remote call of an invocation carries the image its
\* caller passed in, and no invocation fails because the other overwrote or
\* deleted its image data.
C28_SendsCallersImage ==
    \A i \in Invocations :
        /\ \A k \in 1..Len(sent[i]) : sent[i][k] = image_path_or_bytes[i].img
        /\ xpc[i] # "raised"

-----------------------------------------------------------------------------
(* Properties of prepare_text *)

\* a word of text hyphenated across a line break: letter, "-", newline,
\* letter, starting at i
HyphenatedAt(text, i) ==
    /\ i + 3 <= Len(text)
    /\ text[i] \in Letters
    /\ text[i + 1] = "-"
    /\ text[i + 2] = "\n"
    /\ text[i + 3] \in Letters

\* the two characters are next to each other somewhere in text
Adjacent(text, a, b) ==
    \E k \in 1..(Len(text) - 1) : text[k] = a /\ text[k + 1] = b

====
